---------------------------- MODULE Spec2Model ----------------------------
(***************************************************************************)
(* Vote-ingestion pipeline of the polling system: the event log            *)
(* ('polling-updates', partition 0 = poll creation, partition 1 = votes),  *)
(* the ingestion consumer (KafkaService.consumerActivity) and the ledger   *)
(* transactions PollService.createPoll and VoteService.recordVote, run     *)
(* statement by statement inside withTransaction against PostgreSQL        *)
(* (READ COMMITTED: each statement sees the rows committed when it runs,   *)
(* plus the rows of its own transaction); then the HTTP routes in front of *)
(* the producers, the leaderboard consumer                                 *)
(* (KafkaService.leaderboardConsumerActivity) and the WebSocket broadcast  *)
(* (WebSocketService.broadcast).                                           *)
(***************************************************************************)
EXTENDS Integers, Sequences, FiniteSets, TLC

(* ------------------------------ bounds -------------------------------- *)
\* records the producers append to the topic (both partitions together)
MaxLog == 2
\* vote records the topic holds when the concurrent workers start
MaxVotes == 2
\* the clock runs over 0..MaxTime
MaxTime == 1

(* ------------------------------ inputs -------------------------------- *)
\* ingestion workers: w1 is the consumer of this process; w2 is a second
\* instance of the group (or a delivery repeated while the first is still
\* being applied), which only the concurrent specification lets run
Workers == {"w1", "w2"}

Users == {"u1", "u2"}

\* ToNumber of a string that is no numeric literal
NaN == -1

\* a JavaScript Date / an ISO-8601 string naming the instant t
DateOf(t) == [type |-> "Date", time |-> t]
\* Date.prototype.toISOString
toISOString(d) == [type |-> "string", time |-> d.time]

\* the poll-creation requests handed to pollProducerActivity
PollRequests ==
  { [question |-> "q1", options |-> <<"a", "b">>, expired_at |-> DateOf(1)],
    [question |-> "q2", options |-> <<"a", "">>,  expired_at |-> DateOf(2)],
    [question |-> "q2", options |-> <<"a">>,      expired_at |-> DateOf(2)],
    [question |-> "",   options |-> <<"a", "b">>, expired_at |-> DateOf(2)] }

\* the vote requests handed to voteProducerActivity
VoteRequests ==
  { [poll_id |-> 1, option_id |-> 1, user_id |-> "u1"],
    [poll_id |-> 1, option_id |-> 1, user_id |-> "u2"],
    [poll_id |-> 1, option_id |-> 2, user_id |-> "u1"],
    [poll_id |-> 1, option_id |-> 3, user_id |-> "u1"],
    [poll_id |-> 2, option_id |-> 3, user_id |-> "u1"] }

VARIABLES
  now,                   \* the wall clock (new Date(), NOW())
  log,                   \* log[p]: the records of partition p, in offset order
  pos,                   \* pos[w][p]: next offset worker w reads on partition p
  cur,                   \* cur[w]: the record worker w is applying, and its transaction
  polls,                 \* committed rows of table polls
  poll_options,          \* committed rows of table poll_options
  votes,                 \* committed rows of table votes
  votes_counters,        \* committed rows of table votes_counters
  option_vote_counters,  \* committed rows of table option_vote_counters
  resp,                  \* the response to the last POST /polls or POST /polls/:id/vote
  board,                 \* the body of the last GET /leaderboard response
  lb,                    \* the leaderboard consumer (group result-consumer-group)
  conns,                 \* the WebSocket connections the server has accepted
  clients,               \* wss.clients, in insertion order
  pool,                  \* the pg pool and the calls that take clients from it
  results,               \* the getPollResults call of GET /polls/:id
  kafka                  \* App.start / shutdown and the service's Kafka clients

ledger == <<polls, poll_options, votes, votes_counters, option_vote_counters>>
\* what stands in front of the pipeline: HTTP responses and observers
front == <<resp, board, lb, conns, clients, pool, results, kafka>>
vars == <<now, log, pos, cur, polls, poll_options, votes, votes_counters,
          option_vote_counters, resp, board, lb, conns, clients, pool, results,
          kafka>>

\* the topic is created with partitions 0 and 1; a topic that existed before
\* is used as it is, so the consumers may be handed a further partition
Partitions == {0, 1, 2}

\* observers that may connect over WebSocket
ConnIds == {"c1", "c2"}

(* --------------------------- pure helpers ----------------------------- *)
\* smallest id not in used (stands for gen_random_uuid(): a fresh id)
FreshId(used) == CHOOSE i \in 1..(Cardinality(used) + 1) : i \notin used

\* JavaScript ToNumber of the operand of a relational comparison
ToNumber(x) == IF x.type = "Date" THEN x.time ELSE NaN

\* JavaScript  x <= new Date()  (false when either side is NaN)
LessEqNow(x, t) == ToNumber(x) # NaN /\ ToNumber(x) <= t

\* PostgreSQL's reading of a timestamptz parameter (a Date or an ISO string)
ToTimestamp(x) == x.time

\* JSON.stringify / JSON.parse of a poll-creation payload: the Date becomes its
\* ISO string and stays a string after parsing
EncodePoll(d) ==
  [question |-> d.question, options |-> d.options,
   expired_at |-> IF d.expired_at.type = "Date"
                    THEN toISOString(d.expired_at) ELSE d.expired_at]

EncodeVote(d) ==
  [poll_id |-> d.poll_id, option_id |-> d.option_id, user_id |-> d.user_id]

\* a record whose value is null (message.value === null)
Null == [null |-> TRUE]

\* a record whose value is no JSON text: JSON.parse throws a SyntaxError on it
Malformed == [text |-> "{question:"]

IsNull(v) == "null" \in DOMAIN v

\* JSON.parse(message.value.toString('utf-8')) returns a document
Decodable(v) == "text" \notin DOMAIN v

\* records of other writers to the topic: null and undecodable values, and
\* well-formed documents that land on any partition
ForeignValues ==
  { Null, Malformed,
    EncodePoll([question |-> "q1", options |-> <<"a", "b">>, expired_at |-> DateOf(1)]),
    EncodeVote([poll_id |-> 1, option_id |-> 1, user_id |-> "u1"]) }

\* records on the topic, all partitions together
LogSize == Len(log[0]) + Len(log[1]) + Len(log[2])

(* --------------------------- transactions ----------------------------- *)
\* a worker with no record in hand
Idle ==
  [op |-> "idle", part |-> 0, off |-> 0, data |-> <<>>, pc |-> "idle",
   err |-> "", start |-> 0, pollId |-> 0, optionIds |-> <<>>,
   wpolls |-> {}, wopts |-> {}, wpollc |-> {}, woptc |-> {}, wvotes |-> {},
   uopt |-> {}, upoll |-> {}, prior |-> {}, passed |-> FALSE]

\* rows a statement of worker w's transaction sees: committed rows and its own
VisiblePolls(w)   == polls \cup cur[w].wpolls
VisibleOptions(w) == poll_options \cup cur[w].wopts
VisibleVotes(w)   == votes \cup cur[w].wvotes

\* ids in use, committed or written by a transaction still open
UsedPollIds   == {r.id : r \in polls} \cup UNION {{r.id : r \in cur[w].wpolls} : w \in Workers}
UsedOptionIds == {r.id : r \in poll_options} \cup UNION {{r.id : r \in cur[w].wopts} : w \in Workers}
UsedVoteIds   == {r.id : r \in votes} \cup UNION {{r.id : r \in cur[w].wvotes} : w \in Workers}

\* the key taken over the wrong column: option_id compared with the poll id
SameVoterByOption(v, poll_id, user_id) == v.option_id = poll_id /\ v.user_id = user_id

\* the key of UNIQUE(poll_id, user_id), also the fast-path SELECT's WHERE clause
SameVoter(v, poll_id, user_id) == v.poll_id = poll_id /\ v.user_id = user_id

\* the transaction throws msg: withTransaction's catch block runs next
Throw(w, msg) == cur' = [cur EXCEPT ![w].pc = "rollback", ![w].err = msg]

Goto(w, pc) == cur' = [cur EXCEPT ![w].pc = pc]

\* statements that reach the database, each of which may fail
StmtPcs ==
  {"selQuestion", "insPoll", "insOption", "insPollCounter", "insOptCounters",
   "selPoll", "selOption", "selVote", "insVote", "updOption", "updPoll", "commit"}

(* ------------------------------ Init ---------------------------------- *)
\* a connection the server has not accepted yet
NoConn ==
  [state |-> "none", broken |-> FALSE, out |-> <<>>, init |-> "none",
   data |-> <<>>]

\* the leaderboard consumer before its first run
LbIdle ==
  [running |-> FALSE, pos |-> [p \in Partitions |-> 0], pc |-> "idle",
   part |-> 0, off |-> 0, snap |-> <<>>]

\* the calls that take a client from the pool on their own account
OpIds == {"t1", "t2", "q1"}

\* a call that has not begun: connects and releases count its pool.connect()
\* and client.release() calls, queries, commits and rollbacks the statements
\* it has issued, failures the attempts of executeQuery that failed; failed
\* is the statement of the try block that threw, error what the call throws
OpIdle ==
  [kind |-> "none", pc |-> "idle", attempt |-> 0, held |-> FALSE,
   connects |-> 0, releases |-> 0, outcome |-> "none",
   queries |-> 0, commits |-> 0, rollbacks |-> 0, failures |-> 0,
   failed |-> "none", error |-> "none"]

\* new Pool(poolConfig): no client checked out
PoolIdle == [checkedOut |-> 0, ops |-> [o \in OpIds |-> OpIdle]]

\* no getPollResults call under way
NoRequest == [pc |-> "idle", pollId |-> 0, err |-> "", result |-> <<>>]

\* the Kafka clients the KafkaService constructor creates
KafkaClients ==
  {"admin", "pollProducer", "voteProducer", "consumer", "leaderboardConsumer"}

\* new App(): App.start has not been called, no client is connected; ok and
\* failed hold the calls of start and shutdown that succeeded and that failed;
\* topic is the number of partitions of 'polling-updates', 0 when it does
\* not exist
KafkaIdle ==
  [pc |-> "pool.connect", topic |-> 0, up |-> [c \in KafkaClients |-> FALSE],
   ok |-> {}, failed |-> {}, listening |-> FALSE]

\* no request answered, no observer connected, leaderboard consumer not started
InitFront ==
  /\ resp = [route |-> "none", status |-> 0, appended |-> FALSE]
  /\ board = <<>>
  /\ lb = LbIdle
  /\ conns = [c \in ConnIds |-> NoConn]
  /\ clients = <<>>
  /\ pool = PoolIdle
  /\ results = NoRequest
  /\ kafka = KafkaIdle

\* after createTables: empty tables, an empty topic, consumers at offset 0
Init ==
  /\ InitFront
  /\ now = 0
  /\ log = [p \in Partitions |-> <<>>]
  /\ pos = [w \in Workers |-> [p \in Partitions |-> 0]]
  /\ cur = [w \in Workers |-> Idle]
  /\ polls = {}
  /\ poll_options = {}
  /\ votes = {}
  /\ votes_counters = [i \in {} |-> 0]
  /\ option_vote_counters = [i \in {} |-> 0]

(* ----------------------------- the clock ------------------------------ *)
Tick ==
  /\ now < MaxTime
  /\ now' = now + 1
  /\ UNCHANGED <<log, pos, cur, ledger>>

(* ----------------------------- producers ------------------------------ *)
\* the poll producer sending to the partition of the votes
pollProducerToVotes(data) ==
  /\ LogSize < MaxLog
  /\ log' = [log EXCEPT ![1] = Append(@, EncodePoll(data))]
  /\ UNCHANGED <<now, pos, cur, ledger>>

\* KafkaService.pollProducerActivity: send to partition 0
pollProducerActivity(data) ==
  /\ LogSize < MaxLog
  /\ log' = [log EXCEPT ![0] = Append(@, EncodePoll(data))]
  /\ UNCHANGED <<now, pos, cur, ledger>>

\* KafkaService.voteProducerActivity: send to partition 1
voteProducerActivity(data) ==
  /\ LogSize < MaxLog
  /\ log' = [log EXCEPT ![1] = Append(@, EncodeVote(data))]
  /\ UNCHANGED <<now, pos, cur, ledger>>

(* ------------------------ ingestion consumer -------------------------- *)
\* what the ledger already held for the record when its transaction began:
\* the polls with the same question, or the votes of the same user on the poll
Prior(p, d) ==
  IF p = 0 THEN {r \in polls : "question" \in DOMAIN d /\ r.question = d.question}
  ELSE {v \in votes : /\ "poll_id" \in DOMAIN d
                      /\ v.poll_id = d.poll_id /\ v.user_id = d.user_id}

\* the operation chosen by the fields of the document, not by the partition
DispatchByShape(p, v) ==
  IF IsNull(v) THEN "skip"
  ELSE IF ~Decodable(v) THEN (IF p \in {0, 1} THEN "throw" ELSE "skip")
  ELSE IF "question" \in DOMAIN v THEN "createPoll"
  ELSE "recordVote"

\* what eachMessage of consumerActivity does with value v of partition p:
\* a null value returns at once; partition 0 parses and calls createPoll,
\* partition 1 parses and calls recordVote (JSON.parse stands before the try
\* block, so its SyntaxError leaves the handler); any other partition is
\* logged and the handler returns
Dispatch(p, v) ==
  IF IsNull(v) THEN "skip"
  ELSE IF p = 0 THEN (IF Decodable(v) THEN "createPoll" ELSE "throw")
  ELSE IF p = 1 THEN (IF Decodable(v) THEN "recordVote" ELSE "throw")
  ELSE "skip"

\* a consumer that jumps to the newest record of the partition
DeliverLatest(w, p) ==
  /\ cur[w].op = "idle"
  /\ pos[w][p] < Len(log[p])
  /\ LET d == log[p][Len(log[p])]
         op == Dispatch(p, d)
         t == [Idle EXCEPT !.op = op, !.part = p, !.off = Len(log[p]) - 1,
                           !.data = d, !.start = now]
     IN cur' = [cur EXCEPT ![w] =
                  IF op = "skip" THEN [t EXCEPT !.pc = "done"]
                  ELSE IF op = "throw"
                    THEN [t EXCEPT !.pc = "thrown", !.err = "SyntaxError"]
                  ELSE [t EXCEPT !.pc = "validate", !.prior = Prior(p, d)]]
  /\ UNCHANGED <<now, log, pos, ledger>>

\* eachMessage of consumerActivity up to withTransaction's BEGIN
Deliver(w, p) ==
  /\ cur[w].op = "idle"
  /\ pos[w][p] < Len(log[p])
  /\ LET d == log[p][pos[w][p] + 1]
         op == Dispatch(p, d)
         t == [Idle EXCEPT !.op = op, !.part = p, !.off = pos[w][p],
                           !.data = d, !.start = now]
     IN cur' = [cur EXCEPT ![w] =
                  IF op = "skip" THEN [t EXCEPT !.pc = "done"]
                  ELSE IF op = "throw"
                    THEN [t EXCEPT !.pc = "thrown", !.err = "SyntaxError"]
                  ELSE [t EXCEPT !.pc = "validate", !.prior = Prior(p, d)]]
  /\ UNCHANGED <<now, log, pos, ledger>>

\* eachMessage threw: the runner does not resolve the record's offset and
\* fetches from the same offset again
HandlerThrows(w) ==
  /\ cur[w].pc = "thrown"
  /\ cur' = [cur EXCEPT ![w] = Idle]
  /\ UNCHANGED <<now, log, pos, ledger>>

\* a handler that lets the service's error escape: the record is not
\* resolved and is fetched again
AckOnSuccess(w) ==
  /\ cur[w].pc = "done"
  /\ pos' = [pos EXCEPT ![w][cur[w].part] =
               IF cur[w].err = "" THEN cur[w].off + 1 ELSE cur[w].off]
  /\ cur' = [cur EXCEPT ![w] = Idle]
  /\ UNCHANGED <<now, log, ledger>>

\* eachMessage returns (the service's error, if any, was caught and logged):
\* the worker moves to the next offset of the partition
Ack(w) ==
  /\ cur[w].pc = "done"
  /\ pos' = [pos EXCEPT ![w][cur[w].part] = cur[w].off + 1]
  /\ cur' = [cur EXCEPT ![w] = Idle]
  /\ UNCHANGED <<now, log, ledger>>

\* at-least-once delivery: the worker restarts from an earlier offset
\* (its offset commit was lost, or it re-reads fromBeginning)
Redeliver(w, p) ==
  /\ cur[w].op = "idle"
  /\ \E k \in 0..(pos[w][p] - 1) : pos' = [pos EXCEPT ![w][p] = k]
  /\ UNCHANGED <<now, log, cur, ledger>>

(* --------------------------- withTransaction -------------------------- *)
\* a statement (or COMMIT) fails on the connection or times out
StorageFailure(w) ==
  /\ cur[w].pc \in StmtPcs
  /\ Throw(w, "storage")
  /\ UNCHANGED <<now, log, pos, ledger>>

\* the rows of votes_counters / option_vote_counters after t's COMMIT
CommitCounters(c, inserted, updated) ==
  [i \in DOMAIN c \cup inserted |->
     IF \E u \in updated : u.id = i
       THEN (CHOOSE u \in updated : u.id = i).val
       ELSE IF i \in DOMAIN c THEN c[i] ELSE 0]

\* COMMIT: the transaction's writes become the committed rows
Commit(w) ==
  /\ cur[w].pc = "commit"
  /\ polls' = polls \cup cur[w].wpolls
  /\ poll_options' = poll_options \cup cur[w].wopts
  /\ votes' = votes \cup cur[w].wvotes
  /\ votes_counters' = CommitCounters(votes_counters, cur[w].wpollc, cur[w].upoll)
  /\ option_vote_counters' =
       CommitCounters(option_vote_counters, cur[w].woptc, cur[w].uopt)
  /\ cur' = [cur EXCEPT ![w].pc = "done", ![w].wpolls = {}, ![w].wopts = {},
                        ![w].wpollc = {}, ![w].woptc = {}, ![w].wvotes = {},
                        ![w].uopt = {}, ![w].upoll = {}]
  /\ UNCHANGED <<now, log, pos>>

\* statements run outside the transaction: ROLLBACK leaves their rows
KeepWritten(rows, written) == rows \cup written

\* a table after ROLLBACK: the rows the transaction wrote are discarded
Discard(rows, written) == rows

\* the transaction's record once ROLLBACK has discarded its writes
RolledBack(t) ==
  [t EXCEPT !.pc = "done", !.wpolls = {}, !.wopts = {}, !.wpollc = {},
            !.woptc = {}, !.wvotes = {}, !.uopt = {}, !.upoll = {}]

\* catch: ROLLBACK, rethrow
Rollback(w) ==
  /\ cur[w].pc = "rollback"
  /\ cur' = [cur EXCEPT ![w] = RolledBack(cur[w])]
  /\ polls' = Discard(polls, cur[w].wpolls)
  /\ poll_options' = Discard(poll_options, cur[w].wopts)
  /\ votes' = Discard(votes, cur[w].wvotes)
  /\ UNCHANGED <<now, log, pos, votes_counters, option_vote_counters>>

(* ----------------------- PollService.createPoll ----------------------- *)
\* !pollData.question || !pollData.options || pollData.options.length < 2
InvalidPollData(d) ==
  \/ "question" \notin DOMAIN d \/ d.question = ""
  \/ "options" \notin DOMAIN d \/ Len(d.options) < 2

\* !pollData.expired_at || pollData.expired_at <= new Date()
InvalidExpiration(d, t) == LessEqNow(d.expired_at, t)

CP_Validate(w) ==
  /\ cur[w].op = "createPoll" /\ cur[w].pc = "validate"
  /\ IF InvalidPollData(cur[w].data) THEN Throw(w, "Invalid poll data")
     ELSE IF InvalidExpiration(cur[w].data, now)
       THEN Throw(w, "Invalid poll expiration date")
     ELSE Goto(w, "selQuestion")
  /\ UNCHANGED <<now, log, pos, ledger>>

\* createPoll without the duplicate-question check
NoExistingPoll(w) == {}

\* SELECT id FROM polls WHERE question = $1
ExistingPoll(w) == {r \in VisiblePolls(w) : r.question = cur[w].data.question}

CP_SelectExisting(w) ==
  /\ cur[w].op = "createPoll" /\ cur[w].pc = "selQuestion"
  /\ IF ExistingPoll(w) # {} THEN Throw(w, "Poll already exists")
     ELSE Goto(w, "insPoll")
  /\ UNCHANGED <<now, log, pos, ledger>>

\* INSERT INTO polls (question, expired_at) ... RETURNING id
CP_InsertPoll(w) ==
  /\ cur[w].op = "createPoll" /\ cur[w].pc = "insPoll"
  /\ LET id == FreshId(UsedPollIds)
         row == [id |-> id, question |-> cur[w].data.question,
                 expired_at |-> ToTimestamp(cur[w].data.expired_at),
                 created_at |-> cur[w].start]
     IN cur' = [cur EXCEPT ![w].wpolls = {row}, ![w].pollId = id,
                           ![w].pc = "insOption"]
  /\ UNCHANGED <<now, log, pos, ledger>>

\* for (const optionText of pollData.options) INSERT INTO poll_options ...
CP_InsertOption(w) ==
  /\ cur[w].op = "createPoll" /\ cur[w].pc = "insOption"
  /\ LET i == Len(cur[w].optionIds) + 1
         id == FreshId(UsedOptionIds)
         row == [id |-> id, poll_id |-> cur[w].pollId,
                 option_text |-> cur[w].data.options[i]]
     IN cur' = [cur EXCEPT ![w].wopts = @ \cup {row},
                           ![w].optionIds = Append(@, id),
                           ![w].pc = IF i = Len(cur[w].data.options)
                                       THEN "insPollCounter" ELSE "insOption"]
  /\ UNCHANGED <<now, log, pos, ledger>>

\* INSERT INTO votes_counters (poll_id) VALUES ($1)
CP_InsertPollCounter(w) ==
  /\ cur[w].op = "createPoll" /\ cur[w].pc = "insPollCounter"
  /\ cur' = [cur EXCEPT ![w].wpollc = {cur[w].pollId}, ![w].pc = "insOptCounters"]
  /\ UNCHANGED <<now, log, pos, ledger>>

\* the SELECT keyed on the option id instead of the poll id
OptionsOfPollById(rows, poll_id) == {r.id : r \in {o \in rows : o.id = poll_id}}

\* SELECT id FROM poll_options WHERE poll_id = $1
OptionsOfPoll(rows, poll_id) == {r.id : r \in {o \in rows : o.poll_id = poll_id}}

\* INSERT INTO option_vote_counters (option_id)
\*   SELECT id FROM poll_options WHERE poll_id = $1
CP_InsertOptionCounters(w) ==
  /\ cur[w].op = "createPoll" /\ cur[w].pc = "insOptCounters"
  /\ cur' = [cur EXCEPT
               ![w].woptc = OptionsOfPoll(VisibleOptions(w), cur[w].pollId),
               ![w].pc = "commit"]
  /\ UNCHANGED <<now, log, pos, ledger>>

(* ----------------------- VoteService.recordVote ----------------------- *)
\* !voteData.poll_id || !voteData.option_id || !voteData.user_id
InvalidVoteData(d) ==
  \/ "poll_id" \notin DOMAIN d
  \/ "option_id" \notin DOMAIN d
  \/ "user_id" \notin DOMAIN d \/ d.user_id = ""

RV_Validate(w) ==
  /\ cur[w].op = "recordVote" /\ cur[w].pc = "validate"
  /\ IF InvalidVoteData(cur[w].data) THEN Throw(w, "Invalid vote data")
     ELSE Goto(w, "selPoll")
  /\ UNCHANGED <<now, log, pos, ledger>>

\* SELECT expired_at FROM polls WHERE id = $1
PollResult(w) == {r \in VisiblePolls(w) : r.id = cur[w].data.poll_id}

\* the expiry compared with < instead of <=
PollExpiredStrict(rows, t) ==
  rows = {} \/ \E r \in rows : r.expired_at < t

\* pollResult.rows.length === 0 || pollResult.rows[0].expired_at <= new Date()
PollExpired(rows, t) ==
  rows = {} \/ \E r \in rows : LessEqNow(DateOf(r.expired_at), t)

RV_SelectPoll(w) ==
  /\ cur[w].op = "recordVote" /\ cur[w].pc = "selPoll"
  /\ IF PollExpired(PollResult(w), now) THEN Throw(w, "Poll has expired")
     ELSE Goto(w, "selOption")
  /\ UNCHANGED <<now, log, pos, ledger>>

\* the option looked up by its id alone
OptionResultOfAnyPoll(w) ==
  {r \in VisibleOptions(w) : r.id = cur[w].data.option_id}

\* SELECT id FROM poll_options WHERE poll_id = $1 AND id = $2
OptionResult(w) ==
  {r \in VisibleOptions(w) :
     r.poll_id = cur[w].data.poll_id /\ r.id = cur[w].data.option_id}

RV_SelectOption(w) ==
  /\ cur[w].op = "recordVote" /\ cur[w].pc = "selOption"
  /\ IF OptionResult(w) = {} THEN Throw(w, "Invalid option for the poll")
     ELSE Goto(w, "selVote")
  /\ UNCHANGED <<now, log, pos, ledger>>

\* SELECT id FROM votes WHERE poll_id = $1 AND user_id = $2
ExistingVote(w) ==
  {v \in VisibleVotes(w) : SameVoter(v, cur[w].data.poll_id, cur[w].data.user_id)}

RV_SelectVote(w) ==
  /\ cur[w].op = "recordVote" /\ cur[w].pc = "selVote"
  /\ IF ExistingVote(w) # {}
       THEN Throw(w, "User has already voted on this poll")
       ELSE cur' = [cur EXCEPT ![w].pc = "insVote", ![w].passed = TRUE]
  /\ UNCHANGED <<now, log, pos, ledger>>

\* an INSERT that does not wait for an open transaction's row of the same key
InsertNeverWaits(w, d) == FALSE

\* UNIQUE(poll_id, user_id): an open transaction has inserted the same key,
\* so the INSERT waits for it to commit or roll back
InsertWaits(w, d) ==
  \E x \in Workers \ {w} :
    \E v \in cur[x].wvotes : SameVoter(v, d.poll_id, d.user_id)

\* table votes without its UNIQUE(poll_id, user_id)
NoUniqueConstraint(rows, d) == FALSE

\* UNIQUE(poll_id, user_id): a committed row has the same key
UniqueViolation(rows, d) ==
  \E v \in rows : SameVoter(v, d.poll_id, d.user_id)

\* INSERT INTO votes (poll_id, option_id, user_id) ... RETURNING id
RV_InsertVote(w) ==
  /\ cur[w].op = "recordVote" /\ cur[w].pc = "insVote"
  /\ ~InsertWaits(w, cur[w].data)
  /\ IF UniqueViolation(votes, cur[w].data)
       THEN Throw(w, "duplicate key value violates unique constraint")
       ELSE cur' = [cur EXCEPT
                      ![w].wvotes = {[id |-> FreshId(UsedVoteIds),
                                      poll_id |-> cur[w].data.poll_id,
                                      option_id |-> cur[w].data.option_id,
                                      user_id |-> cur[w].data.user_id]},
                      ![w].pc = "updOption"]
  /\ UNCHANGED <<now, log, pos, ledger>>

\* counters written from a value read earlier, without the row lock
NoRowLock(w, table, id) == FALSE

\* the row lock of UPDATE: another open transaction has updated row id of the
\* counter table and has not finished, so this UPDATE waits
RowLocked(w, table, id) ==
  \E x \in Workers \ {w} :
    \E u \in (IF table = "option_vote_counters" THEN cur[x].uopt ELSE cur[x].upoll) :
      u.id = id

\* an UPDATE that adds 2
IncrementByTwo(c, id) ==
  IF id \in DOMAIN c THEN {[id |-> id, val |-> c[id] + 2]} ELSE {}

\* SET vote_count = vote_count + 1 on the rows WHERE <key> = id: the new row
\* versions the transaction holds until COMMIT
Increment(c, id) ==
  IF id \in DOMAIN c THEN {[id |-> id, val |-> c[id] + 1]} ELSE {}

\* UPDATE option_vote_counters SET vote_count = vote_count + 1 WHERE option_id = $1
RV_UpdateOptionCounter(w) ==
  /\ cur[w].op = "recordVote" /\ cur[w].pc = "updOption"
  /\ ~RowLocked(w, "option_vote_counters", cur[w].data.option_id)
  /\ cur' = [cur EXCEPT
               ![w].uopt = Increment(option_vote_counters, cur[w].data.option_id),
               ![w].pc = "updPoll"]
  /\ UNCHANGED <<now, log, pos, ledger>>

\* a recordVote without the UPDATE of votes_counters
RV_SkipPollCounter(w) ==
  /\ cur[w].op = "recordVote" /\ cur[w].pc = "updPoll"
  /\ cur' = [cur EXCEPT ![w].pc = "commit"]
  /\ UNCHANGED <<now, log, pos, ledger>>

\* UPDATE votes_counters SET vote_count = vote_count + 1 WHERE poll_id = $1
RV_UpdatePollCounter(w) ==
  /\ cur[w].op = "recordVote" /\ cur[w].pc = "updPoll"
  /\ ~RowLocked(w, "votes_counters", cur[w].data.poll_id)
  /\ cur' = [cur EXCEPT
               ![w].upoll = Increment(votes_counters, cur[w].data.poll_id),
               ![w].pc = "commit"]
  /\ UNCHANGED <<now, log, pos, ledger>>

(* --------------------------- specification ---------------------------- *)
Step(w) ==
  \/ CP_Validate(w)
  \/ CP_SelectExisting(w)
  \/ CP_InsertPoll(w)
  \/ CP_InsertOption(w)
  \/ CP_InsertPollCounter(w)
  \/ CP_InsertOptionCounters(w)
  \/ RV_Validate(w)
  \/ RV_SelectPoll(w)
  \/ RV_SelectOption(w)
  \/ RV_SelectVote(w)
  \/ RV_InsertVote(w)
  \/ RV_UpdateOptionCounter(w)
  \/ RV_UpdatePollCounter(w)
  \/ StorageFailure(w)
  \/ Commit(w)
  \/ Rollback(w)
  \/ Ack(w)

Next ==
  /\ \/ Tick
     \/ \E d \in PollRequests : pollProducerActivity(d)
     \/ \E d \in VoteRequests : voteProducerActivity(d)
     \/ \E p \in Partitions : Deliver("w1", p)
     \/ Step("w1")
     \/ \E p \in Partitions : Redeliver("w1", p)
  /\ UNCHANGED front

\* the pipeline of one process: producers, the log, one ingestion consumer
Spec == Init /\ [][Next]_vars

(* ------------------- concurrent ledger transactions ------------------- *)
\* votes of two users for the first option of the first poll
ConcurrentVotes ==
  { [poll_id |-> 1, option_id |-> 1, user_id |-> "u1"],
    [poll_id |-> 1, option_id |-> 2, user_id |-> "u2"] }

\* sequences over S of length 1..n
SeqsUpTo(S, n) == UNION {[1..k -> S] : k \in 1..n}

\* the topic already holds one poll creation and some votes when two
\* ingestion workers start from offset 0 on empty tables
InitConcurrent ==
  /\ InitFront
  /\ now = 0
  /\ \E vs \in SeqsUpTo(ConcurrentVotes, MaxVotes) :
       log = [p \in Partitions |->
                IF p = 0
                  THEN <<EncodePoll([question |-> "q1", options |-> <<"a", "b">>,
                                     expired_at |-> DateOf(1)])>>
                  ELSE IF p = 1 THEN [i \in DOMAIN vs |-> EncodeVote(vs[i])]
                  ELSE <<>>]
  /\ pos = [w \in Workers |-> [p \in Partitions |-> 0]]
  /\ cur = [w \in Workers |-> Idle]
  /\ polls = {}
  /\ poll_options = {}
  /\ votes = {}
  /\ votes_counters = [i \in {} |-> 0]
  /\ option_vote_counters = [i \in {} |-> 0]

NextConcurrent ==
  /\ \/ Tick
     \/ \E p \in Partitions : Deliver("w1", p)
     \/ Deliver("w2", 1)
     \/ \E w \in Workers : Step(w)
  /\ UNCHANGED front

\* two workers applying the records of the log concurrently
SpecConcurrent == InitConcurrent /\ [][NextConcurrent]_vars

(* ------------------- records of other writers ------------------------ *)
\* another client of the broker appends value v to partition p of the topic
ForeignProducer(p, v) ==
  /\ LogSize < MaxLog
  /\ log' = [log EXCEPT ![p] = Append(@, v)]
  /\ UNCHANGED <<now, pos, cur, ledger>>

NextIngest ==
  /\ \/ \E d \in PollRequests : pollProducerActivity(d)
     \/ \E d \in VoteRequests : voteProducerActivity(d)
     \/ \E p \in Partitions : \E v \in ForeignValues : ForeignProducer(p, v)
     \/ \E p \in Partitions : Deliver("w1", p)
     \/ Step("w1")
     \/ HandlerThrows("w1")
  /\ UNCHANGED front

\* the ingestion consumer on a topic that other clients write to as well
SpecIngest == Init /\ [][NextIngest]_vars

(* ----------------------------- HTTP routes ---------------------------- *)
\* how producer.send settles: acknowledged by the broker, or rejected once
\* the producer's retries are used up
SendOutcomes == {"sent", "failed"}

\* the ValidationErrors of POST /polls
RouteRejectsPoll(d) ==
  \/ d.question = ""
  \/ Len(d.options) < 2
  \/ \E i \in DOMAIN d.options : d.options[i] = ""

\* the ValidationError of POST /polls/:id/vote
RouteRejectsVote(d) == d.user_id = ""

\* pollProducerActivity / voteProducerActivity when send rejects: the .catch
\* on the send logs the error, and the returned promise resolves
ProducerSendFails ==
  UNCHANGED <<now, log, pos, cur, ledger>>

\* POST /polls: validate, await pollProducerActivity, answer 201
PostPoll(d, outcome) ==
  IF RouteRejectsPoll(d)
    THEN /\ resp' = [route |-> "POST /polls", status |-> 400, appended |-> FALSE]
         /\ UNCHANGED <<now, log, pos, cur, ledger>>
    ELSE /\ IF outcome = "sent" THEN pollProducerActivity(d) ELSE ProducerSendFails
         /\ resp' = [route |-> "POST /polls", status |-> 201,
                     appended |-> outcome = "sent"]

\* POST /polls/:id/vote: validate, await voteProducerActivity, answer 200
PostVote(d, outcome) ==
  IF RouteRejectsVote(d)
    THEN /\ resp' = [route |-> "POST /polls/:id/vote", status |-> 400,
                     appended |-> FALSE]
         /\ UNCHANGED <<now, log, pos, cur, ledger>>
    ELSE /\ IF outcome = "sent" THEN voteProducerActivity(d) ELSE ProducerSendFails
         /\ resp' = [route |-> "POST /polls/:id/vote", status |-> 200,
                     appended |-> outcome = "sent"]

NextRoutes ==
  /\ \/ \E d \in PollRequests : \E o \in SendOutcomes : PostPoll(d, o)
     \/ \E d \in VoteRequests : \E o \in SendOutcomes : PostVote(d, o)
     \/ (\E p \in Partitions : Deliver("w1", p)) /\ UNCHANGED resp
     \/ Step("w1") /\ UNCHANGED resp
  /\ UNCHANGED <<board, lb, conns, clients, pool, results, kafka>>

\* the poll and vote routes in front of the producers, and the ingestion
\* consumer behind them
SpecRoutes == Init /\ [][NextRoutes]_vars

(* ---------------- LeaderboardService.getLeaderboard ------------------- *)
\* LIMIT 10
LeaderboardLimit == 10

\* the join without the WHERE clause: the options of expired polls too
LeaderboardRowsOfAnyPoll(t) ==
  { [poll_id |-> p.id, poll_question |-> p.question, option_id |-> o.id,
     option_text |-> o.option_text,
     vote_count |-> IF o.id \in DOMAIN option_vote_counters
                      THEN option_vote_counters[o.id] ELSE 0,
     sort_key |-> IF o.id \in DOMAIN option_vote_counters
                    THEN option_vote_counters[o.id] ELSE -1] :
      <<p, o>> \in {x \in polls \X poll_options :
                      x[2].poll_id = x[1].id} }

\* polls p JOIN poll_options o ON p.id = o.poll_id LEFT JOIN
\* option_vote_counters ovc ON o.id = ovc.option_id WHERE p.expired_at > NOW(),
\* with COALESCE(ovc.vote_count, 0) as vote_count; sort_key is ovc.vote_count
\* (-1 stands for NULL, which NULLS LAST puts behind every count)
LeaderboardRows(t) ==
  { [poll_id |-> p.id, poll_question |-> p.question, option_id |-> o.id,
     option_text |-> o.option_text,
     vote_count |-> IF o.id \in DOMAIN option_vote_counters
                      THEN option_vote_counters[o.id] ELSE 0,
     sort_key |-> IF o.id \in DOMAIN option_vote_counters
                    THEN option_vote_counters[o.id] ELSE -1] :
      <<p, o>> \in {x \in polls \X poll_options :
                      x[2].poll_id = x[1].id /\ x[1].expired_at > t} }

RECURSIVE OrderByVoteCount(_)
\* ORDER BY ovc.vote_count DESC NULLS LAST: every arrangement of the rows with
\* the sort key descending; SQL leaves the order of rows with equal keys open
OrderByVoteCount(rows) ==
  IF rows = {} THEN {<<>>}
  ELSE LET first == {r \in rows : \A x \in rows : r.sort_key >= x.sort_key}
       IN UNION { { <<r>> \o s : s \in OrderByVoteCount(rows \ {r}) } :
                  r \in first }

\* a row of the result, as getLeaderboard maps it
LeaderboardEntry(row) ==
  [poll_id |-> row.poll_id, poll_question |-> row.poll_question,
   option_id |-> row.option_id, option_text |-> row.option_text,
   vote_count |-> row.vote_count]

\* the values getLeaderboard may return at time t on the committed ledger
getLeaderboard(t) ==
  { [data |-> [i \in 1..(IF Len(s) < LeaderboardLimit THEN Len(s)
                                                        ELSE LeaderboardLimit)
                 |-> LeaderboardEntry(s[i])],
     timestamp |-> t] : s \in OrderByVoteCount(LeaderboardRows(t)) }

\* GET /leaderboard: leaderboardConsumerActivity computes the leaderboard,
\* subscribes and runs the leaderboard consumer, and the result is the body
GetLeaderboardRoute ==
  /\ \E r \in getLeaderboard(now) : board' = r
  /\ lb' = [lb EXCEPT !.running = TRUE]
  /\ UNCHANGED <<now, log, pos, cur, ledger, resp, conns, clients, pool, results, kafka>>

(* ------------------------ WebSocketService --------------------------- *)
\* every client of the server's set taken for open, closing ones included
IsClient(conn) == conn.state \in {"open", "closing"}

\* client.readyState === WebSocket.OPEN
IsOpen(conn) == conn.state = "open"

\* client.send(data) / ws.send(data) on an open connection: the message is
\* handed to the socket; when the socket is broken the write fails later, the
\* connection emits 'error' (its listeners log it) and goes down
Send(conn, msg) ==
  [conn EXCEPT !.out = Append(@, msg),
               !.state = IF conn.broken THEN "closing" ELSE @]

RECURSIVE BroadcastAbortsOnError(_, _, _, _)
\* a broadcast that the failure of one send ends
BroadcastAbortsOnError(cs, order, i, msg) ==
  IF i > Len(order) THEN cs
  ELSE LET c == order[i] IN
    IF ~IsOpen(cs[c]) THEN BroadcastAbortsOnError(cs, order, i + 1, msg)
    ELSE IF cs[c].broken THEN [cs EXCEPT ![c] = Send(cs[c], msg)]
    ELSE BroadcastAbortsOnError([cs EXCEPT ![c] = Send(cs[c], msg)],
                                order, i + 1, msg)

RECURSIVE broadcast(_, _, _, _)
\* this.wss.clients.forEach(client => { if (OPEN) client.send(data) }), from
\* the i-th client of the set on
broadcast(cs, order, i, msg) ==
  IF i > Len(order) THEN cs
  ELSE LET c == order[i] IN
    IF IsOpen(cs[c])
      THEN broadcast([cs EXCEPT ![c] = Send(cs[c], msg)], order, i + 1, msg)
      ELSE broadcast(cs, order, i + 1, msg)

\* the message of sendLeaderboardUpdate
LeaderboardUpdate(result) == [type |-> "LEADERBOARD_UPDATE", data |-> result]

\* the message sent on connection
LeaderboardInit(result) == [type |-> "LEADERBOARD_INIT", data |-> result]

\* wss.on('connection'): the socket is open and in wss.clients, and the
\* handler has called leaderboardConsumerActivity
Connect(c) ==
  /\ conns[c].state = "none"
  /\ conns' = [conns EXCEPT ![c].state = "open", ![c].init = "pending"]
  /\ clients' = Append(clients, c)
  /\ UNCHANGED <<now, log, pos, cur, ledger, resp, board, lb, pool, results, kafka>>

\* leaderboardConsumerActivity, first await: getLeaderboard returns
InitQuery(c) ==
  /\ conns[c].init = "pending"
  /\ \E r \in getLeaderboard(now) :
       conns' = [conns EXCEPT ![c].init = "queried", ![c].data = r]
  /\ UNCHANGED <<now, log, pos, cur, ledger, resp, board, lb, clients, pool, results, kafka>>

\* getLeaderboard rejects: the handler's catch logs it, nothing is sent
InitQueryFails(c) ==
  /\ conns[c].init = "pending"
  /\ conns' = [conns EXCEPT ![c].init = "failed"]
  /\ UNCHANGED <<now, log, pos, cur, ledger, resp, board, lb, clients, pool, results, kafka>>

\* leaderboardConsumerActivity subscribes, runs the leaderboard consumer and
\* returns; then ws.send of LEADERBOARD_INIT (nothing goes out on a
\* connection that is no longer open)
InitSend(c) ==
  /\ conns[c].init = "queried"
  /\ lb' = [lb EXCEPT !.running = TRUE]
  /\ conns' = [conns EXCEPT ![c] =
                 [(IF IsOpen(conns[c])
                     THEN Send(conns[c], LeaderboardInit(conns[c].data))
                     ELSE conns[c])
                  EXCEPT !.init = "done", !.data = <<>>]]
  /\ UNCHANGED <<now, log, pos, cur, ledger, resp, board, clients, pool, results, kafka>>

\* the peer starts the closing handshake
PeerCloses(c) ==
  /\ conns[c].state = "open"
  /\ conns' = [conns EXCEPT ![c].state = "closing"]
  /\ UNCHANGED <<now, log, pos, cur, ledger, resp, board, lb, clients, pool, results, kafka>>

\* 'close': the connection is closed and leaves wss.clients
Closed(c) ==
  /\ conns[c].state = "closing"
  /\ conns' = [conns EXCEPT ![c].state = "closed"]
  /\ clients' = SelectSeq(clients, LAMBDA x : x # c)
  /\ UNCHANGED <<now, log, pos, cur, ledger, resp, board, lb, pool, results, kafka>>

\* the peer is gone and the server has not noticed: readyState is still OPEN
SocketBreaks(c) ==
  /\ conns[c].state = "open" /\ ~conns[c].broken
  /\ conns' = [conns EXCEPT ![c].broken = TRUE]
  /\ UNCHANGED <<now, log, pos, cur, ledger, resp, board, lb, clients, pool, results, kafka>>

(* --------------------- leaderboard consumer --------------------------- *)
\* a refresh for the records of every partition
LB_EachOfAnyPartition(p) ==
  /\ lb.running /\ lb.pc = "idle"
  /\ lb.pos[p] < Len(log[p])
  /\ IF ~IsNull(log[p][lb.pos[p] + 1])
       THEN \E r \in getLeaderboard(now) :
              lb' = [lb EXCEPT !.pc = "broadcast", !.part = p,
                               !.off = lb.pos[p], !.snap = r]
       ELSE lb' = [lb EXCEPT !.pos[p] = @ + 1]
  /\ UNCHANGED <<now, log, pos, cur, ledger, resp, board, conns, clients, pool, results, kafka>>

\* eachMessage of the leaderboard consumer up to the end of its await: a
\* null value or a partition other than 1 returns at once; a record of
\* partition 1 computes the leaderboard
LB_Each(p) ==
  /\ lb.running /\ lb.pc = "idle"
  /\ lb.pos[p] < Len(log[p])
  /\ IF ~IsNull(log[p][lb.pos[p] + 1]) /\ p = 1
       THEN \E r \in getLeaderboard(now) :
              lb' = [lb EXCEPT !.pc = "broadcast", !.part = p,
                               !.off = lb.pos[p], !.snap = r]
       ELSE lb' = [lb EXCEPT !.pos[p] = @ + 1]
  /\ UNCHANGED <<now, log, pos, cur, ledger, resp, board, conns, clients, pool, results, kafka>>

\* wss.sendLeaderboardUpdate(updatedLeaderboard); eachMessage returns
LB_Broadcast ==
  /\ lb.pc = "broadcast"
  /\ conns' = broadcast(conns, clients, 1, LeaderboardUpdate(lb.snap))
  /\ lb' = [lb EXCEPT !.pc = "idle", !.pos[lb.part] = lb.off + 1,
                      !.snap = <<>>]
  /\ UNCHANGED <<now, log, pos, cur, ledger, resp, board, clients, pool, results, kafka>>

\* the vote applied before the observers connect, and the vote that is
\* waiting on the topic
EarlierVote == [poll_id |-> 1, option_id |-> 1, user_id |-> "u2"]
WaitingVote == [poll_id |-> 1, option_id |-> 1, user_id |-> "u1"]

\* the server has restarted: the poll of the first request and one vote are
\* in the ledger, both consumer groups had read the vote's record, another
\* vote is waiting on the topic; no observer is connected and the leaderboard
\* consumer has not run yet
InitBroadcast ==
  /\ now = 0
  /\ log = [p \in Partitions |->
              IF p = 0
                THEN <<EncodePoll([question |-> "q1", options |-> <<"a", "b">>,
                                   expired_at |-> DateOf(1)])>>
                ELSE IF p = 1 THEN <<EncodeVote(EarlierVote), EncodeVote(WaitingVote)>>
                ELSE <<>>]
  /\ pos = [w \in Workers |-> [p \in Partitions |-> IF p = 2 THEN 0 ELSE 1]]
  /\ cur = [w \in Workers |-> Idle]
  /\ polls = {[id |-> 1, question |-> "q1", expired_at |-> 1, created_at |-> 0]}
  /\ poll_options = {[id |-> 1, poll_id |-> 1, option_text |-> "a"],
                     [id |-> 2, poll_id |-> 1, option_text |-> "b"]}
  /\ votes = {[id |-> 1, poll_id |-> 1, option_id |-> 1, user_id |-> "u2"]}
  /\ votes_counters = [i \in {1} |-> 1]
  /\ option_vote_counters = [i \in {1, 2} |-> IF i = 1 THEN 1 ELSE 0]
  /\ resp = [route |-> "none", status |-> 0, appended |-> FALSE]
  /\ board = <<>>
  /\ lb = [LbIdle EXCEPT !.pos[1] = 1]
  /\ conns = [c \in ConnIds |-> NoConn]
  /\ clients = <<>>
  /\ pool = PoolIdle
  /\ results = NoRequest
  /\ kafka = KafkaIdle

NextBroadcast ==
  \/ Deliver("w1", 1) /\ UNCHANGED front
  \/ Step("w1") /\ UNCHANGED front
  \/ \E p \in Partitions : LB_Each(p)
  \/ LB_Broadcast
  \/ \E c \in ConnIds : Connect(c)
  \/ \E c \in ConnIds : InitQuery(c)
  \/ \E c \in ConnIds : InitQueryFails(c)
  \/ \E c \in ConnIds : InitSend(c)
  \/ \E c \in ConnIds : PeerCloses(c)
  \/ \E c \in ConnIds : Closed(c)
  \/ \E c \in ConnIds : SocketBreaks(c)

\* the ingestion consumer, the leaderboard consumer and the observers
SpecBroadcast == InitBroadcast /\ [][NextBroadcast]_vars

(* -------------------------- the scenario ------------------------------ *)
\* the requests of the scenario, in the order of their arrival
ScenarioPoll ==
  [question |-> "Best language?", options |-> <<"Go", "Rust">>,
   expired_at |-> DateOf(1)]
ScenarioVotes ==
  << [poll_id |-> 1, option_id |-> 1, user_id |-> "u1"],
     [poll_id |-> 1, option_id |-> 2, user_id |-> "u1"],
     [poll_id |-> 1, option_id |-> 2, user_id |-> "u2"] >>

\* the four events are on the topic, the ledger is empty
InitScenario ==
  /\ InitFront
  /\ now = 0
  /\ log = [p \in Partitions |->
              IF p = 0 THEN <<EncodePoll(ScenarioPoll)>>
              ELSE IF p = 1 THEN [i \in DOMAIN ScenarioVotes |->
                                    EncodeVote(ScenarioVotes[i])]
              ELSE <<>>]
  /\ pos = [w \in Workers |-> [p \in Partitions |-> 0]]
  /\ cur = [w \in Workers |-> Idle]
  /\ polls = {}
  /\ poll_options = {}
  /\ votes = {}
  /\ votes_counters = [i \in {} |-> 0]
  /\ option_vote_counters = [i \in {} |-> 0]

NextScenario ==
  \/ (\E p \in Partitions : Deliver("w1", p)) /\ UNCHANGED front
  \/ Step("w1") /\ UNCHANGED front
  \/ GetLeaderboardRoute

\* the ingestion consumer applies the scenario's events; the leaderboard is
\* read at any time
SpecScenario == InitScenario /\ [][NextScenario]_vars

(* ----------------------- a full leaderboard --------------------------- *)
\* the options of the large poll, ids 1..11 in the order of their insertion
ManyOptions == <<"a", "b", "c", "d", "e", "f", "g", "h", "i", "j", "k">>

\* the votes on the large poll: option i has i - 1 votes, each of its own user
ManyVotes ==
  { [id |-> ((i - 1) * (i - 2)) \div 2 + k, poll_id |-> 1, option_id |-> i,
     user_id |-> ToString(((i - 1) * (i - 2)) \div 2 + k)] :
      <<i, k>> \in {x \in (1..Len(ManyOptions)) \X (1..Len(ManyOptions)) :
                      x[2] < x[1]} }

\* what a user has done with the small poll: nothing (0), or voted option 12 or 13
SmallChoices == {0, 12, 13}

\* the votes on the small poll when u1 chose a and u2 chose b
SmallVotes(a, b) ==
  (IF a = 0 THEN {}
   ELSE {[id |-> Cardinality(ManyVotes) + 1, poll_id |-> 2, option_id |-> a,
          user_id |-> "u1"]})
  \cup
  (IF b = 0 THEN {}
   ELSE {[id |-> Cardinality(ManyVotes) + 2, poll_id |-> 2, option_id |-> b,
          user_id |-> "u2"]})

\* a ledger the pipeline has built: a poll with eleven options and votes on
\* all but the first, a poll with two options, every counter equal to the
\* number of its votes; the consumers have read the whole topic
InitLeaderboard ==
  /\ InitFront
  /\ now = 0
  /\ log = [p \in Partitions |-> <<>>]
  /\ pos = [w \in Workers |-> [p \in Partitions |-> 0]]
  /\ cur = [w \in Workers |-> Idle]
  /\ \E e1 \in 1..2 : \E e2 \in 1..2 :
       polls = {[id |-> 1, question |-> "q1", expired_at |-> e1, created_at |-> 0],
                [id |-> 2, question |-> "q2", expired_at |-> e2, created_at |-> 0]}
  /\ poll_options =
       {[id |-> i, poll_id |-> 1, option_text |-> ManyOptions[i]] :
          i \in 1..Len(ManyOptions)}
       \cup {[id |-> 12, poll_id |-> 2, option_text |-> "a"],
             [id |-> 13, poll_id |-> 2, option_text |-> "b"]}
  /\ \E a \in SmallChoices : \E b \in SmallChoices :
       votes = ManyVotes \cup SmallVotes(a, b)
  /\ votes_counters =
       [p \in {1, 2} |-> Cardinality({v \in votes : v.poll_id = p})]
  /\ option_vote_counters =
       [o \in 1..13 |-> Cardinality({v \in votes : v.option_id = o})]

NextLeaderboard ==
  \/ Tick /\ UNCHANGED front
  \/ GetLeaderboardRoute

\* GET /leaderboard on a ledger with more options than the leaderboard holds,
\* while time passes and the polls expire
SpecLeaderboard == InitLeaderboard /\ [][NextLeaderboard]_vars

(* ------------------- the pool and its two callers -------------------- *)
\* executeQuery's default number of attempts
Retries == 3

\* t1 and t2 are withTransaction calls, q1 is an executeQuery call
KindOf(o) == IF o = "q1" THEN "executeQuery" ELSE "withTransaction"

\* withTransaction(callback) or executeQuery(query) is called
Call(o) ==
  /\ pool.ops[o].pc \in {"idle", "done"}
  /\ pool' = [pool EXCEPT !.ops[o] =
                 [OpIdle EXCEPT !.kind = KindOf(o), !.pc = "connect",
                                !.attempt = 1]]

\* const client = await pool.connect(): a client is checked out, or the call
\* throws (no client within connectionTimeoutMillis) and nothing was acquired
PoolConnect(o, ok) ==
  /\ pool.ops[o].pc = "connect"
  /\ pool' =
       IF ok
         THEN [pool EXCEPT !.checkedOut = @ + 1,
                           !.ops[o].held = TRUE,
                           !.ops[o].connects = @ + 1,
                           !.ops[o].pc = IF KindOf(o) = "executeQuery"
                                           THEN "query" ELSE "BEGIN"]
         ELSE [pool EXCEPT !.ops[o].pc = "done", !.ops[o].outcome = "thrown",
                           !.ops[o].failures = @ + 1,
                           !.ops[o].error = "connect error"]

\* the error that a failing statement (or the callback) throws
ErrorOf(stmt) ==
  [BEGIN |-> "BEGIN error", callback |-> "callback error",
   COMMIT |-> "COMMIT error", ROLLBACK |-> "ROLLBACK error"][stmt]

\* withTransaction's try block: BEGIN, the callback, COMMIT, each awaited;
\* a failure of any of them enters the catch block
WT_Try(o, ok) ==
  /\ pool.ops[o].pc \in {"BEGIN", "callback", "COMMIT"}
  /\ LET stmt == pool.ops[o].pc
         issued == [pool EXCEPT !.ops[o].commits =
                                  IF stmt = "COMMIT" THEN @ + 1 ELSE @]
     IN pool' =
       IF ~ok THEN [issued EXCEPT !.ops[o].pc = "ROLLBACK",
                                  !.ops[o].failed = stmt,
                                  !.ops[o].error = ErrorOf(stmt)]
       ELSE IF stmt = "BEGIN"
         THEN [issued EXCEPT !.ops[o].pc = "callback"]
       ELSE IF stmt = "callback"
         THEN [issued EXCEPT !.ops[o].pc = "COMMIT"]
       ELSE [issued EXCEPT !.ops[o].pc = "finally", !.ops[o].outcome = "returned"]

\* a catch block without finally: when ROLLBACK fails the release is skipped
WT_CatchEscapes(o, ok) ==
  /\ pool.ops[o].pc = "ROLLBACK"
  /\ pool' = [pool EXCEPT !.ops[o].pc = IF ok THEN "finally" ELSE "done",
                          !.ops[o].rollbacks = @ + 1,
                          !.ops[o].outcome = "thrown"]

\* withTransaction's catch block: await client.query('ROLLBACK'); throw error.
\* When ROLLBACK succeeds the error caught is thrown on; when ROLLBACK throws,
\* its error leaves the block and `throw error` is not reached
WT_Catch(o, ok) ==
  /\ pool.ops[o].pc = "ROLLBACK"
  /\ pool' = [pool EXCEPT !.ops[o].pc = "finally", !.ops[o].outcome = "thrown",
                          !.ops[o].rollbacks = @ + 1,
                          !.ops[o].error = IF ok THEN @ ELSE ErrorOf("ROLLBACK")]

\* executeQuery's try and catch: the query returns, or it fails and the last
\* attempt throws DatabaseError, an earlier one sleeps 2^attempt seconds
EQ_Try(o, ok) ==
  /\ pool.ops[o].pc = "query"
  /\ LET issued == [pool EXCEPT !.ops[o].queries = @ + 1,
                                !.ops[o].failures = IF ok THEN @ ELSE @ + 1]
     IN pool' =
       IF ok THEN [issued EXCEPT !.ops[o].pc = "finally",
                                 !.ops[o].outcome = "returned"]
       ELSE IF pool.ops[o].attempt = Retries
         THEN [issued EXCEPT !.ops[o].pc = "finally", !.ops[o].outcome = "thrown",
                             !.ops[o].error = "DatabaseError"]
       ELSE [issued EXCEPT !.ops[o].pc = "backoff"]

\* the backoff sleep in executeQuery's catch block ends
EQ_Backoff(o) ==
  /\ pool.ops[o].pc = "backoff"
  /\ pool' = [pool EXCEPT !.ops[o].pc = "finally", !.ops[o].outcome = "retry"]

\* finally { client.release() }: the client goes back to the pool; the call
\* returns or throws, or executeQuery's loop goes to its next attempt
Finally(o) ==
  /\ pool.ops[o].pc = "finally"
  /\ pool' =
       [pool EXCEPT !.checkedOut = @ - 1,
                    !.ops[o].held = FALSE,
                    !.ops[o].releases = @ + 1,
                    !.ops[o].pc = IF pool.ops[o].outcome = "retry"
                                    THEN "connect" ELSE "done",
                    !.ops[o].attempt = IF pool.ops[o].outcome = "retry"
                                         THEN @ + 1 ELSE @,
                    !.ops[o].outcome = IF pool.ops[o].outcome = "retry"
                                         THEN "none" ELSE @]

NextPool ==
  /\ \/ \E o \in OpIds : Call(o)
     \/ \E o \in OpIds : \E ok \in BOOLEAN : PoolConnect(o, ok)
     \/ \E o \in OpIds : \E ok \in BOOLEAN : WT_Try(o, ok)
     \/ \E o \in OpIds : \E ok \in BOOLEAN : WT_Catch(o, ok)
     \/ \E o \in OpIds : \E ok \in BOOLEAN : EQ_Try(o, ok)
     \/ \E o \in OpIds : EQ_Backoff(o)
     \/ \E o \in OpIds : Finally(o)
  /\ UNCHANGED <<now, log, pos, cur, ledger, resp, board, lb, conns, clients,
                 results, kafka>>

\* two withTransaction calls and one executeQuery call, side by side, each
\* statement of theirs succeeding or failing
SpecPool == Init /\ [][NextPool]_vars

(* -------------------- PollService.getPollResults --------------------- *)
\* the ids GET /polls/:id is asked for: a poll of the ledger, an id no poll
\* has, and 0 for an id that is falsy
ResultIds == {0, 1, 2}

\* parseInt(vote_count) of the counter row joined to id; a missing row joins
\* as NULL, which parseInt turns into NaN
JoinedCount(c, id) == IF id \in DOMAIN c THEN c[id] ELSE NaN

\* the rows of the aggregate query on the committed tables (one statement,
\* one snapshot), each mapped as getPollResults returns it; options is the
\* json_agg array taken as a set, its order being left open by the query
PollResultRows(id) ==
  { [id |-> p.id, question |-> p.question,
     total_votes |-> JoinedCount(votes_counters, p.id),
     options |-> { [option_id |-> o.id, option_text |-> o.option_text,
                    vote_count |-> JoinedCount(option_vote_counters, o.id)] :
                   o \in {x \in poll_options : x.poll_id = p.id} },
     created_at |-> p.created_at, expired_at |-> p.expired_at] :
      p \in {x \in polls : x.id = id} }

\* getPollResults(id) is called: withTransaction begins, and a falsy id is
\* refused before any statement
GR_Call(id) ==
  /\ results.pc \in {"idle", "done"}
  /\ results' = IF id = 0
                  THEN [NoRequest EXCEPT !.pc = "done", !.pollId = id,
                                         !.err = "Invalid poll ID"]
                  ELSE [NoRequest EXCEPT !.pc = "exists", !.pollId = id]
  /\ UNCHANGED <<now, log, pos, cur, ledger, resp, board, lb, conns, clients, pool, kafka>>

\* SELECT id FROM polls WHERE id = $1
GR_SelectExists ==
  /\ results.pc = "exists"
  /\ results' = IF \E p \in polls : p.id = results.pollId
                  THEN [results EXCEPT !.pc = "aggregate"]
                  ELSE [results EXCEPT !.pc = "done", !.err = "Poll does not exist"]
  /\ UNCHANGED <<now, log, pos, cur, ledger, resp, board, lb, conns, clients, pool, kafka>>

\* the aggregate query and the mapping of its row
GR_Aggregate ==
  /\ results.pc = "aggregate"
  /\ LET rows == PollResultRows(results.pollId)
     IN results' = IF rows = {}
                     THEN [results EXCEPT !.pc = "done",
                                          !.err = "Failed to fetch poll results"]
                     ELSE [results EXCEPT !.pc = "done",
                                          !.result = CHOOSE r \in rows : TRUE]
  /\ UNCHANGED <<now, log, pos, cur, ledger, resp, board, lb, conns, clients, pool, kafka>>

\* a statement of getPollResults fails (connection lost, timeout)
GR_StorageFailure ==
  /\ results.pc \in {"exists", "aggregate"}
  /\ results' = [results EXCEPT !.pc = "done", !.err = "storage"]
  /\ UNCHANGED <<now, log, pos, cur, ledger, resp, board, lb, conns, clients, pool, kafka>>

\* the poll has been created; two votes of different users wait on the topic
InitResults ==
  /\ InitFront
  /\ now = 0
  /\ log = [p \in Partitions |->
              IF p = 0
                THEN <<EncodePoll([question |-> "q1", options |-> <<"a", "b">>,
                                   expired_at |-> DateOf(1)])>>
                ELSE IF p = 1
                  THEN <<EncodeVote([poll_id |-> 1, option_id |-> 1, user_id |-> "u1"]),
                         EncodeVote([poll_id |-> 1, option_id |-> 2, user_id |-> "u2"])>>
                ELSE <<>>]
  /\ pos = [w \in Workers |-> [p \in Partitions |-> IF p = 0 THEN 1 ELSE 0]]
  /\ cur = [w \in Workers |-> Idle]
  /\ polls = {[id |-> 1, question |-> "q1", expired_at |-> 1, created_at |-> 0]}
  /\ poll_options = {[id |-> 1, poll_id |-> 1, option_text |-> "a"],
                     [id |-> 2, poll_id |-> 1, option_text |-> "b"]}
  /\ votes = {}
  /\ votes_counters = [i \in {1} |-> 0]
  /\ option_vote_counters = [i \in {1, 2} |-> 0]

NextResults ==
  \/ (\E w \in Workers : Deliver(w, 1)) /\ UNCHANGED front
  \/ (\E w \in Workers : Step(w)) /\ UNCHANGED front
  \/ \E id \in ResultIds : GR_Call(id)
  \/ GR_SelectExists
  \/ GR_Aggregate
  \/ GR_StorageFailure

\* GET /polls/:id while two workers apply votes on the poll
SpecResults == InitResults /\ [][NextResults]_vars

(* ----------------------------- two polls ----------------------------- *)
\* two polls have been created, poll 1 with options 1 and 2, poll 2 with
\* options 3 and 4; vote requests of any kind wait on the topic
InitTwoPolls ==
  /\ InitFront
  /\ now = 0
  /\ \E vs \in SeqsUpTo(VoteRequests, MaxVotes) :
       log = [p \in Partitions |->
                IF p = 1 THEN [i \in DOMAIN vs |-> EncodeVote(vs[i])] ELSE <<>>]
  /\ pos = [w \in Workers |-> [p \in Partitions |-> 0]]
  /\ cur = [w \in Workers |-> Idle]
  /\ polls = {[id |-> 1, question |-> "q1", expired_at |-> 1, created_at |-> 0],
              [id |-> 2, question |-> "q2", expired_at |-> 1, created_at |-> 0]}
  /\ poll_options = {[id |-> 1, poll_id |-> 1, option_text |-> "a"],
                     [id |-> 2, poll_id |-> 1, option_text |-> "b"],
                     [id |-> 3, poll_id |-> 2, option_text |-> "a"],
                     [id |-> 4, poll_id |-> 2, option_text |-> "b"]}
  /\ votes = {}
  /\ votes_counters = [i \in {1, 2} |-> 0]
  /\ option_vote_counters = [i \in 1..4 |-> 0]

NextTwoPolls ==
  /\ \/ Deliver("w1", 1)
     \/ Step("w1")
  /\ UNCHANGED front

\* the ingestion consumer applying votes to a ledger of two polls
SpecTwoPolls == InitTwoPolls /\ [][NextTwoPolls]_vars

(* ---------------------- App.start and shutdown ----------------------- *)
\* the call at kafka.pc returns: it is entered in ok or in failed
Returned(k, ok) ==
  [k EXCEPT !.ok = IF ok THEN @ \cup {k.pc} ELSE @,
            !.failed = IF ok THEN @ ELSE @ \cup {k.pc}]

\* App.start: const client = await pool.connect(); client.release(). A
\* failure leaves start through its catch block
StartPoolConnect(ok) ==
  /\ kafka.pc = "pool.connect"
  /\ kafka' = [Returned(kafka, ok) EXCEPT
                 !.pc = IF ok THEN "admin.connect" ELSE "start failed"]

\* adminActivity: await this.admin.connect().then(log).catch(log)
AdminConnect(ok) ==
  /\ kafka.pc = "admin.connect"
  /\ kafka' = [Returned(kafka, ok) EXCEPT !.up["admin"] = ok,
                                          !.pc = "admin.listTopics"]

\* adminActivity: await this.admin.listTopics() in the try block; when it
\* throws, the catch block logs; when the topic is listed nothing is created
AdminListTopics(ok) ==
  /\ kafka.pc = "admin.listTopics"
  /\ kafka' = [Returned(kafka, ok) EXCEPT
                 !.pc = IF ok /\ kafka.topic = 0 THEN "admin.createTopics"
                        ELSE "admin.disconnect"]

\* adminActivity: await this.admin.createTopics({numPartitions: 2})
\* .then(log).catch(log)
AdminCreateTopics(ok) ==
  /\ kafka.pc = "admin.createTopics"
  /\ kafka' = [Returned(kafka, ok) EXCEPT !.topic = IF ok THEN 2 ELSE @,
                                          !.pc = "admin.fetchTopicMetadata"]

\* adminActivity: await this.admin.fetchTopicMetadata().then(log).catch(log)
AdminFetchTopicMetadata(ok) ==
  /\ kafka.pc = "admin.fetchTopicMetadata"
  /\ kafka' = [Returned(kafka, ok) EXCEPT !.pc = "admin.disconnect"]

\* adminActivity: finally { await this.admin.disconnect().then(log).catch(log) };
\* adminActivity returns and App.start calls consumerActivity
AdminDisconnect(ok) ==
  /\ kafka.pc = "admin.disconnect"
  /\ kafka' = [Returned(kafka, ok) EXCEPT !.up["admin"] = IF ok THEN FALSE ELSE @,
                                          !.pc = "consumer.connect"]

\* consumerActivity: await this.consumer.connect().then(log).catch(log)
ConsumerConnect(ok) ==
  /\ kafka.pc = "consumer.connect"
  /\ kafka' = [Returned(kafka, ok) EXCEPT !.up["consumer"] = ok,
                                          !.pc = "consumer.subscribe"]

\* consumerActivity: await this.consumer.subscribe().then(log).catch(log)
ConsumerSubscribe(ok) ==
  /\ kafka.pc = "consumer.subscribe"
  /\ kafka' = [Returned(kafka, ok) EXCEPT !.pc = "consumer.run"]

\* consumerActivity: await this.consumer.run({eachMessage}).catch(log); a
\* consumer that runs is connected. consumerActivity returns
ConsumerRun(ok) ==
  /\ kafka.pc = "consumer.run"
  /\ kafka' = [Returned(kafka, ok) EXCEPT !.up["consumer"] = IF ok THEN TRUE ELSE @,
                                          !.pc = "listen"]

\* App.start: this.server.listen(port); this.setupGracefulShutdown()
Listen ==
  /\ kafka.pc = "listen"
  /\ kafka' = [kafka EXCEPT !.listening = TRUE, !.pc = "started"]

\* a request is served: pollProducerActivity / voteProducerActivity connect
\* their producer, leaderboardConsumerActivity runs the leaderboard consumer
ClientStarts(c) ==
  /\ kafka.pc = "started"
  /\ c \in {"pollProducer", "voteProducer", "leaderboardConsumer"}
  /\ kafka' = [kafka EXCEPT !.up[c] = TRUE]

\* the clients disconnect() disconnects, in its order
DisconnectOrder == <<"pollProducer", "voteProducer", "consumer">>

\* the position of disconnect() at the i-th of them
DisconnectPc(i) ==
  <<"pollProducer.disconnect", "voteProducer.disconnect", "consumer.disconnect">>[i]

\* SIGTERM / SIGINT: shutdown closes the HTTP server and the WebSocket
\* server and calls kafkaService.disconnect()
Shutdown ==
  /\ kafka.pc = "started"
  /\ kafka' = [kafka EXCEPT !.listening = FALSE, !.pc = DisconnectPc(1)]

\* KafkaService.disconnect: await <client>.disconnect() inside one try block;
\* a failure enters the catch block, which logs, and disconnect returns
DisconnectClient(i, ok) ==
  /\ i \in DOMAIN DisconnectOrder
  /\ kafka.pc = DisconnectPc(i)
  /\ kafka' = [Returned(kafka, ok) EXCEPT
                 !.up[DisconnectOrder[i]] = IF ok THEN FALSE ELSE @,
                 !.pc = IF ok /\ i < Len(DisconnectOrder)
                          THEN DisconnectPc(i + 1)
                          ELSE "disconnect returned"]

NextStartup ==
  /\ \/ \E ok \in BOOLEAN : StartPoolConnect(ok)
     \/ \E ok \in BOOLEAN : AdminConnect(ok)
     \/ \E ok \in BOOLEAN : AdminListTopics(ok)
     \/ \E ok \in BOOLEAN : AdminCreateTopics(ok)
     \/ \E ok \in BOOLEAN : AdminFetchTopicMetadata(ok)
     \/ \E ok \in BOOLEAN : AdminDisconnect(ok)
     \/ \E ok \in BOOLEAN : ConsumerConnect(ok)
     \/ \E ok \in BOOLEAN : ConsumerSubscribe(ok)
     \/ \E ok \in BOOLEAN : ConsumerRun(ok)
     \/ Listen
     \/ \E c \in KafkaClients : ClientStarts(c)
     \/ Shutdown
     \/ \E i \in DOMAIN DisconnectOrder : \E ok \in BOOLEAN : DisconnectClient(i, ok)
  /\ UNCHANGED <<now, log, pos, cur, ledger, resp, board, lb, conns, clients,
                 pool, results>>

\* the process starts on a broker where the topic exists (with 2 or with 3
\* partitions) or does not exist
InitStartup ==
  /\ now = 0
  /\ log = [p \in Partitions |-> <<>>]
  /\ pos = [w \in Workers |-> [p \in Partitions |-> 0]]
  /\ cur = [w \in Workers |-> Idle]
  /\ polls = {}
  /\ poll_options = {}
  /\ votes = {}
  /\ votes_counters = [i \in {} |-> 0]
  /\ option_vote_counters = [i \in {} |-> 0]
  /\ resp = [route |-> "none", status |-> 0, appended |-> FALSE]
  /\ board = <<>>
  /\ lb = LbIdle
  /\ conns = [c \in ConnIds |-> NoConn]
  /\ clients = <<>>
  /\ pool = PoolIdle
  /\ results = NoRequest
  /\ \E n \in {0, 2, 3} : kafka = [KafkaIdle EXCEPT !.topic = n]

\* App.start, the clients that requests connect, and the shutdown, each call
\* to the broker succeeding or failing
SpecStartup == InitStartup /\ [][NextStartup]_vars

(* ---------------------- the same question twice ----------------------- *)
\* the creation request that arrives twice
SameQuestion ==
  [question |-> "q1", options |-> <<"a", "b">>, expired_at |-> DateOf(1)]

\* two creation events with one question are on the topic when two ingestion
\* workers start from offset 0 on empty tables
InitSameQuestion ==
  /\ InitFront
  /\ now = 0
  /\ log = [p \in Partitions |->
              IF p = 0 THEN <<EncodePoll(SameQuestion), EncodePoll(SameQuestion)>>
              ELSE <<>>]
  /\ pos = [w \in Workers |-> [p \in Partitions |-> 0]]
  /\ cur = [w \in Workers |-> Idle]
  /\ polls = {}
  /\ poll_options = {}
  /\ votes = {}
  /\ votes_counters = [i \in {} |-> 0]
  /\ option_vote_counters = [i \in {} |-> 0]

NextSameQuestion ==
  /\ \/ \E w \in Workers : Deliver(w, 0)
     \/ \E w \in Workers : Step(w)
  /\ UNCHANGED front

\* two workers applying creation events with the same question
SpecSameQuestion == InitSameQuestion /\ [][NextSameQuestion]_vars

(* ----------------------- the refresh loop ---------------------------- *)
\* what partition 1 may hold: a record without value, a vote the ledger
\* accepts once the poll exists, a vote it refuses for its option
RefreshRecords ==
  { Null,
    EncodeVote([poll_id |-> 1, option_id |-> 1, user_id |-> "u1"]),
    EncodeVote([poll_id |-> 1, option_id |-> 3, user_id |-> "u1"]) }

\* the leaderboard of the empty ledger
EmptyBoard == [data |-> <<>>, timestamp |-> 0]

\* an observer connected to the fresh server and got its LEADERBOARD_INIT,
\* which started the leaderboard consumer; then a creation event and some
\* records of partition 1 arrived
InitRefresh ==
  /\ now = 0
  /\ \E vs \in SeqsUpTo(RefreshRecords, MaxVotes) :
       log = [p \in Partitions |->
                IF p = 0 THEN <<EncodePoll(SameQuestion)>>
                ELSE IF p = 1 THEN vs ELSE <<>>]
  /\ pos = [w \in Workers |-> [p \in Partitions |-> 0]]
  /\ cur = [w \in Workers |-> Idle]
  /\ polls = {}
  /\ poll_options = {}
  /\ votes = {}
  /\ votes_counters = [i \in {} |-> 0]
  /\ option_vote_counters = [i \in {} |-> 0]
  /\ resp = [route |-> "none", status |-> 0, appended |-> FALSE]
  /\ board = <<>>
  /\ lb = [LbIdle EXCEPT !.running = TRUE]
  /\ conns = [c \in ConnIds |->
                IF c = "c1"
                  THEN [NoConn EXCEPT !.state = "open", !.init = "done",
                                      !.out = <<LeaderboardInit(EmptyBoard)>>]
                  ELSE NoConn]
  /\ clients = <<"c1">>
  /\ pool = PoolIdle
  /\ results = NoRequest
  /\ kafka = KafkaIdle

NextRefresh ==
  \/ (\E p \in Partitions : Deliver("w1", p)) /\ UNCHANGED front
  \/ Step("w1") /\ UNCHANGED front
  \/ \E p \in Partitions : LB_Each(p)
  \/ LB_Broadcast

\* the ingestion consumer and the leaderboard consumer reading the same topic
SpecRefresh == InitRefresh /\ [][NextRefresh]_vars

(* ------------------------------ claims -------------------------------- *)
\* what the claims read off a worker's transaction
IsVote(w)   == cur[w].op = "recordVote"
IsCreate(w) == cur[w].op = "createPoll"
Done(w)     == cur[w].pc = "done"
NoWrites(w) ==
  /\ cur[w].wpolls = {} /\ cur[w].wopts = {} /\ cur[w].wpollc = {}
  /\ cur[w].woptc = {} /\ cur[w].wvotes = {} /\ cur[w].uopt = {}
  /\ cur[w].upoll = {}
DuplicateVoteErrors ==
  {"User has already voted on this poll",
   "duplicate key value violates unique constraint"}
SameKey(a, b) == a.poll_id = b.poll_id /\ a.user_id = b.user_id

RECURSIVE SumOver(_, _)
\* the sum of counter c over the ids in S (a missing row counts 0)
SumOver(c, S) ==
  IF S = {} THEN 0
  ELSE LET i == CHOOSE x \in S : TRUE
       IN (IF i \in DOMAIN c THEN c[i] ELSE 0) + SumOver(c, S \ {i})

\* C1: the committed votes never hold two rows with the same (poll_id, user_id)
C1_OneVotePerUser ==
  \A a \in votes : \A b \in votes : SameKey(a, b) => a = b

\* a second transaction for a pair already voted was refused by the constraint
C1_Witness ==
  \E w \in Workers :
    /\ IsVote(w) /\ Done(w)
    /\ cur[w].err = "duplicate key value violates unique constraint"
    /\ \E v \in votes : SameKey(v, cur[w].data)

\* C2: of two finished recordVote calls for the same (poll_id, user_id) that
\* both began before any vote of that pair was committed, and that met no
\* other failure (storage, expiry, option), exactly one succeeded and the other
\* failed as a duplicate vote
C2_ExactlyOneSucceeds ==
  \A w \in Workers : \A x \in Workers \ {w} :
    ( /\ IsVote(w) /\ Done(w) /\ IsVote(x) /\ Done(x)
      /\ SameKey(cur[w].data, cur[x].data)
      /\ cur[w].prior = {} /\ cur[x].prior = {}
      /\ cur[w].err \in DuplicateVoteErrors \cup {""}
      /\ cur[x].err \in DuplicateVoteErrors \cup {""} )
    => ( /\ (cur[w].err = "") # (cur[x].err = "")
         /\ Cardinality({v \in votes : SameKey(v, cur[w].data)}) = 1 )

\* both calls passed the fast-path check; one committed, the constraint
\* refused the other
C2_Witness ==
  \E w \in Workers : \E x \in Workers \ {w} :
    /\ IsVote(w) /\ Done(w) /\ IsVote(x) /\ Done(x)
    /\ SameKey(cur[w].data, cur[x].data)
    /\ cur[w].passed /\ cur[x].passed
    /\ cur[w].err = ""
    /\ cur[x].err = "duplicate key value violates unique constraint"

\* C3: for every committed poll, the option counters of its options sum to its
\* poll counter, which equals the number of its vote rows
C3_CountersAgree ==
  \A p \in polls :
    LET n == Cardinality({v \in votes : v.poll_id = p.id}) IN
      /\ SumOver(votes_counters, {p.id}) = n
      /\ SumOver(option_vote_counters,
                 {o.id : o \in {x \in poll_options : x.poll_id = p.id}}) = n

\* a vote's transaction waits for the poll counter row that the open
\* transaction of another user's vote has incremented
C3_Witness ==
  \E w \in Workers :
    /\ IsVote(w) /\ cur[w].pc = "updPoll"
    /\ RowLocked(w, "votes_counters", cur[w].data.poll_id)
    /\ \E x \in Workers \ {w} :
         IsVote(x) /\ cur[x].upoll # {} /\ cur[x].data.user_id # cur[w].data.user_id

\* C4: a recordVote transaction that begins when its poll's expiry is not
\* after the clock writes nothing and does not succeed, whenever its event
\* was appended to the log
C4_ExpiredVoteRejected ==
  \A w \in Workers :
    ( /\ IsVote(w)
      /\ \E p \in polls : p.id = cur[w].data.poll_id /\ p.expired_at <= cur[w].start )
    => ( /\ cur[w].wvotes = {} /\ cur[w].uopt = {} /\ cur[w].upoll = {}
         /\ cur[w].pc \in {"validate", "selPoll", "rollback", "done"}
         /\ (Done(w) => cur[w].err # "") )

\* a vote that was in the log at time 0, before the expiry of a poll created
\* open, is applied at or after the expiry and rejected as expired
C4_Witness ==
  \E w \in Workers :
    /\ IsVote(w) /\ Done(w) /\ cur[w].err = "Poll has expired"
    /\ \E p \in polls :
         /\ p.id = cur[w].data.poll_id
         /\ p.created_at < p.expired_at
         /\ p.expired_at <= cur[w].start

\* the vote event of w's transaction was in the ledger when it began
Applied(w) ==
  \E v \in cur[w].prior : v.option_id = cur[w].data.option_id

\* C5: no step of a recordVote transaction whose event (same poll, option,
\* user) is already applied changes the ledger, gets past the insert of the
\* vote, or ends in success
C5_RedeliveryIdempotent ==
  [][ \A w \in Workers :
        (IsVote(w) /\ Applied(w) /\ cur'[w] # cur[w])
        => ( /\ ledger' = ledger
             /\ cur'[w].pc \notin {"updOption", "updPoll", "commit"}
             /\ (cur'[w].pc = "done" => cur'[w].err # "") ) ]_vars

\* the only vote record of the log was delivered again after it had been
\* applied, and was refused as a duplicate
C5_Witness ==
  /\ Len(log[1]) = 1
  /\ IsVote("w1") /\ Done("w1") /\ Applied("w1")
  /\ cur["w1"].err \in DuplicateVoteErrors
  /\ Cardinality(votes) = 1
  /\ SumOver(votes_counters, {cur["w1"].data.poll_id}) = 1

\* the request of w's createPoll is valid: non-empty question no poll had when
\* it began, at least two options, none empty, expiry after the clock
ValidRequest(w) ==
  LET d == cur[w].data IN
    /\ d.question # ""
    /\ cur[w].prior = {}
    /\ Len(d.options) >= 2
    /\ \A i \in DOMAIN d.options : d.options[i] # ""
    /\ d.expired_at.time > now

\* the rows of the poll that w's createPoll returned, as the claim lists them
Created(w) ==
  LET d == cur[w].data
      id == cur[w].pollId
      oids == cur[w].optionIds
  IN /\ {r \in polls : r.id = id \/ r.question = d.question}
          = {[id |-> id, question |-> d.question,
              expired_at |-> d.expired_at.time, created_at |-> cur[w].start]}
     /\ Len(oids) = Len(d.options)
     /\ \A i \in DOMAIN oids : \A j \in DOMAIN oids : oids[i] = oids[j] => i = j
     /\ {o \in poll_options : o.poll_id = id}
          = {[id |-> oids[i], poll_id |-> id, option_text |-> d.options[i]] :
               i \in DOMAIN oids}
     /\ id \in DOMAIN votes_counters /\ votes_counters[id] = 0
     /\ \A i \in DOMAIN oids :
          oids[i] \in DOMAIN option_vote_counters
          /\ option_vote_counters[oids[i]] = 0

\* C6: a createPoll of a valid request that met no storage failure succeeds,
\* and the ledger then holds exactly one Poll row for it, one Option row per
\* option text, a PollCounter of 0 and an OptionCounter of 0 per option, the
\* returned ids being those of these rows
C6_CreatePollCreatesRows ==
  \A w \in Workers :
    (IsCreate(w) /\ Done(w) /\ ValidRequest(w) /\ cur[w].err # "storage")
    => (cur[w].err = "" /\ Created(w))

C6_Witness ==
  /\ IsCreate("w1") /\ Done("w1") /\ ValidRequest("w1") /\ cur["w1"].err = ""
  /\ Len(cur["w1"].optionIds) = 2

\* C7: every committed poll has its PollCounter row and its options, every
\* committed option its poll and its OptionCounter row, no counter row lacks
\* its poll or option; and a createPoll that failed left no row of its poll
C7_AllOrNothing ==
  /\ \A p \in polls :
       /\ p.id \in DOMAIN votes_counters
       /\ Cardinality({o \in poll_options : o.poll_id = p.id}) >= 2
  /\ \A o \in poll_options :
       /\ o.id \in DOMAIN option_vote_counters
       /\ \E p \in polls : p.id = o.poll_id
  /\ DOMAIN votes_counters = {p.id : p \in polls}
  /\ DOMAIN option_vote_counters = {o.id : o \in poll_options}
  /\ \A w \in Workers :
       (IsCreate(w) /\ Done(w) /\ cur[w].err # "" /\ cur[w].pollId # 0)
       => ( /\ ~\E p \in polls : p.id = cur[w].pollId
            /\ ~\E o \in poll_options : o.poll_id = cur[w].pollId
            /\ cur[w].pollId \notin DOMAIN votes_counters
            /\ \A i \in DOMAIN cur[w].optionIds :
                 cur[w].optionIds[i] \notin DOMAIN option_vote_counters )

\* a createPoll failed after it had inserted its poll and an option
C7_Witness ==
  \E w \in Workers :
    /\ IsCreate(w) /\ Done(w) /\ cur[w].err = "storage"
    /\ cur[w].pollId # 0 /\ Len(cur[w].optionIds) >= 1

\* C8: no committed poll has an expiry at or before the time of its creation
\* (createPoll rejects every expiry that is not strictly in the future)
C8_ExpiryAfterCreation ==
  \A p \in polls : p.created_at < p.expired_at

\* C9: a createPoll whose request has an empty question, fewer than two
\* options or an empty option text does not succeed
C9_InvalidRequestRejected ==
  \A w \in Workers :
    ( /\ IsCreate(w) /\ Done(w)
      /\ \/ cur[w].data.question = ""
         \/ Len(cur[w].data.options) < 2
         \/ \E i \in DOMAIN cur[w].data.options : cur[w].data.options[i] = "" )
    => cur[w].err # ""

IsPollPayload(v) == DOMAIN v = {"question", "options", "expired_at"}
IsVotePayload(v) == DOMAIN v = {"poll_id", "option_id", "user_id"}

\* C12: with the two producers the only writers, every record of partition 0
\* is a poll-creation payload, every record of partition 1 is a vote payload,
\* and no other partition holds a record
C12_PartitionPayloads ==
  /\ \A i \in DOMAIN log[0] : IsPollPayload(log[0][i])
  /\ \A i \in DOMAIN log[1] : IsVotePayload(log[1][i])
  /\ log[2] = <<>>

\* both producers have appended a record
C12_Witness ==
  /\ Len(log[0]) >= 1 /\ Len(log[1]) >= 1
  /\ IsPollPayload(log[0][1]) /\ IsVotePayload(log[1][1])

\* C13: when the handler takes a record, a record of partition 0 with a
\* decodable value starts createPoll and one of partition 1 starts recordVote,
\* whatever the document is; a null value or another partition starts neither
\* and the handler is done; taking the record, and every later step on a
\* skipped record, leaves the ledger unchanged
C13_DispatchByPartition ==
  [][ \A w \in Workers :
        /\ (cur[w].op = "idle" /\ cur'[w].op # "idle") =>
              LET p == cur'[w].part
                  v == cur'[w].data
              IN /\ ledger' = ledger
                 /\ (p = 0 /\ ~IsNull(v) /\ Decodable(v)) => cur'[w].op = "createPoll"
                 /\ (p = 1 /\ ~IsNull(v) /\ Decodable(v)) => cur'[w].op = "recordVote"
                 /\ (p \notin {0, 1} \/ IsNull(v))
                      => (cur'[w].op = "skip" /\ cur'[w].pc = "done")
        /\ (cur[w].op = "skip" /\ cur'[w] # cur[w]) =>
              (ledger' = ledger /\ cur'[w].op = "idle") ]_vars

\* a vote document on partition 0 went to createPoll, which refused it
C13_Witness ==
  \E w \in Workers :
    /\ cur[w].op = "createPoll" /\ cur[w].part = 0 /\ IsVotePayload(cur[w].data)
    /\ Done(w) /\ cur[w].err = "Invalid poll data"

C15_UndecodableSkipped ==
  [][ \A w \in Workers :
        (cur[w].op # "idle" /\ ~Decodable(cur[w].data) /\ cur'[w].op = "idle")
        => pos'[w][cur[w].part] = cur[w].off + 1 ]_vars

\* C16: a poll or vote request that passed the route's validation and whose
\* event was not appended to the log is not answered as successful
C16_SendFailureSurfaces ==
  (resp.route # "none" /\ ~resp.appended) => resp.status >= 400

\* the ledger of the scenario, as far as the worker has come
ScenarioLedger ==
  LET w == "w1"
      ovc == option_vote_counters
      firstVote == \E v \in votes : v.user_id = "u1" /\ v.option_id = 1
  IN /\ (IsCreate(w) /\ Done(w) /\ cur[w].err # "storage")
          => ( /\ cur[w].err = ""
               /\ Cardinality(poll_options) = 2
               /\ ovc = [i \in {1, 2} |-> 0]
               /\ votes_counters = [i \in {1} |-> 0] )
     /\ (IsVote(w) /\ Done(w) /\ cur[w].off = 0 /\ polls # {}
            /\ cur[w].err # "storage")
          => ( /\ cur[w].err = ""
               /\ ovc[1] = 1 /\ ovc[2] = 0 /\ votes_counters[1] = 1 )
     /\ (IsVote(w) /\ Done(w) /\ cur[w].off = 1 /\ firstVote
            /\ cur[w].err # "storage")
          => ( /\ cur[w].err \in DuplicateVoteErrors
               /\ ovc[1] = 1 /\ ovc[2] = 0 /\ votes_counters[1] = 1 )
     /\ (IsVote(w) /\ Done(w) /\ cur[w].off = 2 /\ firstVote
            /\ cur[w].err # "storage")
          => ( /\ cur[w].err = ""
               /\ ovc[1] = 1 /\ ovc[2] = 1 /\ votes_counters[1] = 2 )

\* C11: in the scenario (poll with options Go and Rust; votes u1->Go,
\* u1->Rust, u2->Rust), storage failures aside: creation leaves two options
\* and counters 0; the first vote gives Go 1 and the poll 1; the second is
\* refused as a duplicate and changes no counter; the third gives Rust 1 and
\* the poll 2; and the leaderboard read once both votes are committed lists
\* Go then Rust (option id order), each with vote_count 1
C11_Scenario ==
  [][ /\ ScenarioLedger'
      /\ (board' # board /\ Cardinality(votes) = 2)
           => ( /\ Len(board'.data) = 2
                /\ board'.data[1].option_id = 1 /\ board'.data[1].vote_count = 1
                /\ board'.data[2].option_id = 2 /\ board'.data[2].vote_count = 1 )
    ]_vars

\* the vote counts a leaderboard result shows, and those of the ledger
CountsOf(result) ==
  {<<result.data[i].option_id, result.data[i].vote_count>> : i \in DOMAIN result.data}
LedgerCounts ==
  {<<o, option_vote_counters[o]>> : o \in DOMAIN option_vote_counters}

\* both consumers have handled every record and no connection handler is
\* under way: nothing more will be pushed unless another record arrives
Quiescent ==
  /\ cur["w1"].op = "idle" /\ pos["w1"][1] = Len(log[1])
  /\ lb.running /\ lb.pc = "idle" /\ lb.pos[1] = Len(log[1])
  /\ \A c \in ConnIds : conns[c].init \notin {"pending", "queried"}

\* C17: once both consumers have handled the waiting vote's record and the
\* vote is committed, every observer that was connected before the commit (it
\* holds a message older than the commit) and is still open has been pushed a
\* LEADERBOARD_UPDATE that shows the ledger with that vote
C17_VotePushed ==
  Quiescent =>
    \A c \in ConnIds :
      ( /\ conns[c].state = "open" /\ ~conns[c].broken
        /\ \E v \in votes : v.user_id = WaitingVote.user_id
        /\ \E i \in DOMAIN conns[c].out :
             CountsOf(conns[c].out[i].data) # LedgerCounts )
      => \E i \in DOMAIN conns[c].out :
           /\ conns[c].out[i].type = "LEADERBOARD_UPDATE"
           /\ CountsOf(conns[c].out[i].data) = LedgerCounts

\* C18: the first message sent on a connection is its LEADERBOARD_INIT
C18_InitFirst ==
  \A c \in ConnIds :
    conns[c].out # <<>> => conns[c].out[1].type = "LEADERBOARD_INIT"

\* C19: a broadcast hands the snapshot once to every connection that is open
\* and leaves every other connection (not connected, closing, closed) as it is
C19_BroadcastToOpen ==
  [][ (lb.pc = "broadcast" /\ lb'.pc # "broadcast") =>
        \A c \in ConnIds :
          IF conns[c].state = "open"
            THEN conns'[c].out = Append(conns[c].out, LeaderboardUpdate(lb.snap))
            ELSE conns'[c] = conns[c] ]_vars

\* of two clients of the set, the later one got the update and the earlier
\* one, closing when the broadcast ran, got nothing
C19_Witness ==
  \E i \in DOMAIN clients : \E j \in DOMAIN clients :
    /\ i < j
    /\ conns[clients[i]].state = "closing" /\ ~conns[clients[i]].broken
    /\ \A k \in DOMAIN conns[clients[i]].out :
         conns[clients[i]].out[k].type = "LEADERBOARD_INIT"
    /\ conns[clients[j]].state = "open"
    /\ Len(conns[clients[j]].out) = 2
    /\ conns[clients[j]].out[2].type = "LEADERBOARD_UPDATE"

OpenAt(e, t) ==
  \E p \in polls : \E o \in poll_options :
    /\ p.id = e.poll_id /\ o.id = e.option_id /\ o.poll_id = p.id
    /\ p.expired_at > t

\* C21: a leaderboard that getLeaderboard returned has at most ten entries,
\* and each entry is an option of a poll whose expiry is after the time of
\* the call
C21_OpenPollsAtMostTen ==
  board # <<>> =>
    /\ Len(board.data) <= 10
    /\ \A i \in DOMAIN board.data : OpenAt(board.data[i], board.timestamp)

\* a leaderboard of ten entries, computed when thirteen options existed and
\* the small poll had expired
C21_Witness ==
  /\ board # <<>>
  /\ Len(board.data) = 10
  /\ Cardinality(LeaderboardRows(board.timestamp)) > 10
  /\ \E p \in polls : p.expired_at <= board.timestamp

\* entry a stands before entry b in the order the leaderboard is to have:
\* the higher count first, the smaller option id first among equal counts
Before(a, b) ==
  \/ a.vote_count > b.vote_count
  \/ a.vote_count = b.vote_count /\ a.option_id < b.option_id

\* C22: a leaderboard that getLeaderboard returned is sorted by vote count
\* descending with equal counts in ascending option id, and no option of an
\* open poll that it leaves out stands before one that it holds
C22_TopTenByCountThenId ==
  board # <<>> =>
    /\ \A i \in DOMAIN board.data : \A j \in DOMAIN board.data :
         i < j => Before(board.data[i], board.data[j])
    /\ \A r \in LeaderboardRows(board.timestamp) :
         (\A i \in DOMAIN board.data : board.data[i].option_id # r.option_id)
           => \A i \in DOMAIN board.data : Before(board.data[i], r)

\* C23: getLeaderboard changes no ledger state, and a call that follows
\* another at the same time, no vote committed in between, returns the same
\* sequence
C23_StableAcrossCalls ==
  [][ (board' # board) =>
        /\ ledger' = ledger
        /\ (board # <<>> /\ board'.timestamp = board.timestamp)
             => board'.data = board.data ]_vars

\* worker w has just had the vote at offset k of partition 1 refused because
\* the ledger holds no poll with id pid
RefusedForMissingPoll(w, k, pid) ==
  /\ IsVote(w) /\ cur[w].part = 1 /\ cur[w].off = k
  /\ cur[w].pc = "done" /\ cur[w].err # ""
  /\ "poll_id" \in DOMAIN cur[w].data /\ cur[w].data.poll_id = pid
  /\ ~\E p \in polls : p.id = pid

\* poll pid has no more votes, and no higher counter, than n
AtMostVotes(pid, n) ==
  /\ Cardinality({v \in votes : v.poll_id = pid}) <= n
  /\ pid \in DOMAIN votes_counters => votes_counters[pid] <= n

\* C24: a vote that is applied while its poll is not in the ledger is refused
\* and dropped: without another delivery it is never recorded, also after the
\* poll has been created, so the poll never holds more votes than vote
\* records that follow the refused one
C24_EarlyVoteDropped ==
  \A k \in 0..MaxLog : \A pid \in 1..2 :
    [](RefusedForMissingPoll("w1", k, pid)
         => [](AtMostVotes(pid, Len(log[1]) - (k + 1))))

\* the vote for poll 1 was consumed and refused, the poll was created
\* afterwards and is open, and it holds no vote
C24_Witness ==
  /\ Len(log[1]) = 1 /\ pos["w1"][1] = 1 /\ pos["w1"][0] = 1
  /\ log[1][1] = EncodeVote([poll_id |-> 1, option_id |-> 1, user_id |-> "u1"])
  /\ cur["w1"].op = "idle"
  /\ \E p \in polls : p.id = 1 /\ p.expired_at > now
  /\ votes = {} /\ votes_counters[1] = 0 /\ option_vote_counters[1] = 0

\* C25: the consumer applies the records of a partition in offset order, one
\* at a time: it begins with the record at its position, stays with that
\* record until the application has committed or failed, and only then moves
\* its position on by one; the ledger changes only by the record in hand
C25_InOrderOneAtATime ==
  [][ LET w == "w1" IN
      /\ (cur[w].op = "idle" /\ cur'[w].op # "idle") =>
           LET p == cur'[w].part IN
             /\ cur'[w].off = pos[w][p]
             /\ cur'[w].off < Len(log[p])
             /\ cur'[w].data = log[p][cur'[w].off + 1]
             /\ pos' = pos
      /\ (cur[w].op # "idle" /\ cur'[w].op # "idle") =>
           /\ cur'[w].part = cur[w].part /\ cur'[w].off = cur[w].off
           /\ pos' = pos
      /\ (cur[w].op # "idle" /\ cur'[w].op = "idle") =>
           /\ cur[w].pc = "done"
           /\ pos' = [pos EXCEPT ![w][cur[w].part] = cur[w].off + 1]
      /\ ledger' # ledger => cur[w].pc = "commit" /\ cur'[w].pc = "done"
    ]_vars

\* the record at offset 1 of partition 1 is being applied after the one at
\* offset 0, which was committed
C25_Witness ==
  /\ cur["w1"].op = "recordVote" /\ cur["w1"].part = 1 /\ cur["w1"].off = 1
  /\ pos["w1"][1] = 1
  /\ Len(log[1]) = 2

\* the clients that call o holds
Holding(o) == IF pool.ops[o].held THEN 1 ELSE 0

\* C26: every client a withTransaction call or an executeQuery attempt took
\* from the pool is released exactly once before the call returns or throws
\* (and before executeQuery's next attempt connects), whichever statement
\* failed; the pool's checked-out count is the number of clients held, so it
\* is 0 once every call has finished
C26_ReleasedExactlyOnce ==
  /\ \A o \in OpIds :
       /\ pool.ops[o].releases + Holding(o) = pool.ops[o].connects
       /\ pool.ops[o].pc \in {"idle", "connect", "done"} => ~pool.ops[o].held
  /\ pool.checkedOut = Cardinality({o \in OpIds : pool.ops[o].held})
  /\ (\A o \in OpIds : pool.ops[o].pc \in {"idle", "done"}) => pool.checkedOut = 0

\* all calls have finished: one transaction returned, one threw after its
\* statements failed, and executeQuery threw after its last attempt
C26_Witness ==
  /\ pool.ops["t1"].pc = "done" /\ pool.ops["t1"].outcome = "returned"
  /\ pool.ops["t2"].pc = "done" /\ pool.ops["t2"].outcome = "thrown"
  /\ pool.ops["t2"].connects = 1
  /\ pool.ops["q1"].pc = "done" /\ pool.ops["q1"].outcome = "thrown"
  /\ pool.ops["q1"].connects = Retries
  /\ pool.checkedOut = 0

\* C27: a recordVote whose poll_id names no poll of the ledger fails, and
\* with another failure than the one an expired poll gets
C27_NotFoundDistinct ==
  \A w \in Workers :
    (/\ IsVote(w) /\ Done(w)
     /\ ~InvalidVoteData(cur[w].data)
     /\ ~\E p \in polls : p.id = cur[w].data.poll_id
     /\ cur[w].err # "storage")
      => cur[w].err \notin {"", "Poll has expired"}

RECURSIVE SumOfCounts(_)
\* the sum of vote_count over a set of returned options
SumOfCounts(S) ==
  IF S = {} THEN 0
  ELSE LET o == CHOOSE x \in S : TRUE IN o.vote_count + SumOfCounts(S \ {o})

\* C28: a getPollResults call changes no ledger state; for an id that no
\* poll has it ends in a failure; for an existing poll it ends (unless the
\* storage fails) with a result whose total_votes is the sum of the
\* vote_counts of its options, whatever the recordVote transactions on the
\* poll are doing meanwhile
C28_ResultsConsistent ==
  [][ (results' # results) =>
        /\ ledger' = ledger
        /\ (results'.pc = "done") =>
             IF \E p \in polls : p.id = results'.pollId
               THEN /\ results'.err \in {"", "storage"}
                    /\ results'.err = "" =>
                         /\ results'.result.id = results'.pollId
                         /\ results'.result.total_votes =
                              SumOfCounts(results'.result.options)
               ELSE results'.err # "" /\ results'.result = <<>>
    ]_vars

\* a result with one vote counted was returned while the other worker's
\* recordVote transaction on the poll was under way with its counters updated
C28_Witness ==
  /\ results.pc = "done" /\ results.err = "" /\ results.pollId = 1
  /\ results.result.total_votes = 1
  /\ \E w \in Workers : IsVote(w) /\ cur[w].pc = "commit" /\ cur[w].upoll # {}

\* C29: a createPoll or recordVote whose statement failed on the storage is
\* rolled back without a trace in the ledger, and the operation is then begun
\* again instead of ending with the failure
C29_TransientFailureRetried ==
  [][ \A w \in Workers :
        (cur[w].pc = "rollback" /\ cur[w].err = "storage" /\ cur'[w] # cur[w])
          => /\ ledger' = ledger
             /\ cur'[w].pc # "done" ]_vars

\* C30: the COMMIT of a recordVote adds one vote row with the vote's poll,
\* option and user, adds 1 to that option's counter and 1 to that poll's
\* counter and changes nothing else; every other step of a recordVote, so
\* every step of one that fails, leaves the ledger as it is
C30_VoteFrame ==
  [][ \A w \in Workers :
        /\ (IsVote(w) /\ cur[w].pc = "commit" /\ cur'[w].pc = "done") =>
             LET d == cur[w].data IN
               /\ \E v \in votes' :
                    /\ v \notin votes /\ votes' = votes \cup {v}
                    /\ v.poll_id = d.poll_id /\ v.option_id = d.option_id
                    /\ v.user_id = d.user_id
               /\ option_vote_counters' =
                    [option_vote_counters EXCEPT ![d.option_id] = @ + 1]
               /\ votes_counters' = [votes_counters EXCEPT ![d.poll_id] = @ + 1]
               /\ polls' = polls /\ poll_options' = poll_options
        /\ (IsVote(w) /\ cur'[w] # cur[w]
              /\ ~(cur[w].pc = "commit" /\ cur'[w].pc = "done")) =>
             ledger' = ledger
    ]_vars

\* one worker's vote has been recorded and the other worker's vote, on the
\* other option, has failed
C30_Witness ==
  /\ Cardinality(votes) = 1
  /\ \E w \in Workers : IsVote(w) /\ Done(w) /\ cur[w].err = ""
  /\ \E w \in Workers : IsVote(w) /\ Done(w) /\ cur[w].err # ""
  /\ SumOver(option_vote_counters, {1, 2}) = 1

\* option o is an option of poll p in the committed ledger
OptionOfPoll(o, p) == \E r \in poll_options : r.id = o /\ r.poll_id = p

\* C31: a vote whose option is not an option of its poll is refused; every
\* vote row's option belongs to the row's poll, and every option's counter
\* counts the vote rows of that option, so a vote never raises the counter
\* of another poll's option
C31_OptionOfThePoll ==
  /\ \A v \in votes : OptionOfPoll(v.option_id, v.poll_id)
  /\ \A o \in DOMAIN option_vote_counters :
       option_vote_counters[o] = Cardinality({v \in votes : v.option_id = o})
  /\ \A w \in Workers :
       (/\ IsVote(w) /\ Done(w) /\ ~InvalidVoteData(cur[w].data)
        /\ ~OptionOfPoll(cur[w].data.option_id, cur[w].data.poll_id))
         => cur[w].err # ""

\* a vote on poll 1 that names option 3, an option of poll 2, was refused
\* for its option
C31_Witness ==
  \E w \in Workers :
    /\ IsVote(w) /\ Done(w)
    /\ cur[w].data.poll_id = 1 /\ cur[w].data.option_id = 3
    /\ OptionOfPoll(3, 2)
    /\ cur[w].err = "Invalid option for the poll"

\* C32: executeQuery makes at most Retries attempts; when it has returned,
\* its last attempt was its first success; when it has thrown, all Retries
\* attempts had failed, failures to connect counted like failures of the
\* query, and what it throws is DatabaseError
C32_BoundedRetries ==
  LET q == pool.ops["q1"] IN
    /\ q.connects <= Retries /\ q.queries <= Retries
    /\ q.pc = "done" =>
         \/ /\ q.outcome = "returned"
            /\ q.queries = q.failures + 1
         \/ /\ q.outcome = "thrown"
            /\ q.failures = Retries
            /\ q.error = "DatabaseError"

\* the same, for the calls in which every pool.connect() succeeded
C32_QueryFailuresOnly ==
  LET q == pool.ops["q1"] IN
    /\ q.connects <= Retries /\ q.queries <= Retries
    /\ (q.pc = "done" /\ q.error # "connect error") =>
         \/ /\ q.outcome = "returned"
            /\ q.queries = q.failures + 1
         \/ /\ q.outcome = "thrown"
            /\ q.failures = Retries
            /\ q.error = "DatabaseError"

\* the withTransaction calls
TxIds == {o \in OpIds : KindOf(o) = "withTransaction"}

\* C38: a withTransaction call whose callback threw has issued ROLLBACK, has
\* not issued COMMIT, and throws the callback's error; a call whose callback
\* returned has issued COMMIT once, and returns when the COMMIT succeeded
C38_RollbackAndRethrow ==
  \A o \in TxIds :
    pool.ops[o].pc = "done" =>
      /\ pool.ops[o].failed = "callback" =>
           /\ pool.ops[o].rollbacks = 1 /\ pool.ops[o].commits = 0
           /\ pool.ops[o].outcome = "thrown"
           /\ pool.ops[o].error = ErrorOf("callback")
      /\ (pool.ops[o].connects = 1 /\ pool.ops[o].failed \in {"none", "COMMIT"}) =>
           /\ pool.ops[o].commits = 1
           /\ pool.ops[o].failed = "none" =>
                pool.ops[o].outcome = "returned" /\ pool.ops[o].rollbacks = 0

\* the same, with the error to be thrown left open when ROLLBACK itself failed
C38_UnlessRollbackFails ==
  \A o \in TxIds :
    pool.ops[o].pc = "done" =>
      /\ pool.ops[o].failed = "callback" =>
           /\ pool.ops[o].rollbacks = 1 /\ pool.ops[o].commits = 0
           /\ pool.ops[o].outcome = "thrown"
           /\ pool.ops[o].error \in {ErrorOf("callback"), ErrorOf("ROLLBACK")}
      /\ (pool.ops[o].connects = 1 /\ pool.ops[o].failed \in {"none", "COMMIT"}) =>
           /\ pool.ops[o].commits = 1
           /\ pool.ops[o].failed = "none" =>
                pool.ops[o].outcome = "returned" /\ pool.ops[o].rollbacks = 0

\* the calls of start and shutdown that have returned
Called == kafka.ok \cup kafka.failed

\* C33: the ingestion consumer is subscribed only after its connect has
\* succeeded and is run only after its subscribe has succeeded: no later
\* step is taken past a step that failed
C33_ConsumerStepsInOrder ==
  /\ kafka.pc = "consumer.subscribe" \/ "consumer.subscribe" \in Called
       => "consumer.connect" \in kafka.ok
  /\ kafka.pc = "consumer.run" \/ "consumer.run" \in Called
       => "consumer.subscribe" \in kafka.ok
  /\ "consumer.run" \in kafka.ok
       => {"consumer.connect", "consumer.subscribe"} \subseteq kafka.ok

\* the clients disconnect() is to leave disconnected
ServiceClients == KafkaClients \ {"admin"}

\* C34: once disconnect() has returned, the poll producer, the vote
\* producer, the ingestion consumer and the leaderboard consumer are all
\* disconnected
C34_AllDisconnected ==
  kafka.pc = "disconnect returned" => \A c \in ServiceClients : ~kafka.up[c]

\* adminActivity has returned normally
AdminReturned ==
  kafka.pc \notin {"pool.connect", "start failed", "admin.connect",
                   "admin.listTopics", "admin.createTopics",
                   "admin.fetchTopicMetadata", "admin.disconnect"}

\* C35: once adminActivity has returned normally the topic exists, with 2
\* partitions when this call created it; when the admin connection or the
\* topic creation has failed, start goes on neither to the ingestion consumer
\* nor to the HTTP server
C35_AdminFailureStopsStart ==
  /\ AdminReturned =>
       /\ kafka.topic # 0
       /\ "admin.createTopics" \in kafka.ok => kafka.topic = 2
  /\ ({"admin.connect", "admin.createTopics"} \cap kafka.failed # {}) =>
       /\ ~AdminReturned
       /\ ~kafka.listening /\ ~kafka.up["consumer"]

\* the committed polls with question q
PollsAsking(q) == {p \in polls : p.question = q}

\* C36: a createPoll that began when a poll with its question was already
\* committed writes nothing and does not succeed, so calls run one after the
\* other never leave two polls with one question; only calls that each began
\* before the other committed can, and then no constraint of the table stops
\* the second COMMIT, so one question has at most as many polls as there are
\* calls running side by side
C36_DuplicateOnlyWhenConcurrent ==
  /\ [](\A w \in Workers :
         (IsCreate(w) /\ cur[w].prior # {})
           => NoWrites(w) /\ ~(Done(w) /\ cur[w].err = ""))
  /\ [][ \A w \in Workers :
           (IsCreate(w) /\ cur[w].pc = "commit" /\ cur'[w].pc = "done")
             => cur[w].prior = {} ]_vars
  /\ [](Cardinality(PollsAsking(SameQuestion.question)) <= Cardinality(Workers))

\* both transactions passed the existence check before either committed,
\* and both committed: two polls have the same question
C36_Witness ==
  /\ \E a \in polls : \E b \in polls : a.id # b.id /\ a.question = b.question
  /\ \A w \in Workers : IsCreate(w) /\ Done(w) /\ cur[w].err = ""
                          /\ cur[w].prior = {}

\* the LEADERBOARD_UPDATE messages a connection was handed
UpdatesOf(c) ==
  Cardinality({i \in DOMAIN conns[c].out :
                 conns[c].out[i].type = "LEADERBOARD_UPDATE"})

\* C37: the leaderboard consumer, for a record of partition 1 that has a
\* value, computes the leaderboard and then broadcasts it once before it
\* moves past the record, whatever the ingestion consumer did with the vote;
\* past a record without value or of another partition it moves without
\* computing or sending anything; so an observer that stays open has as many
\* updates as such records were passed
C37_RefreshPerVoteRecord ==
  /\ [][ (lb.running /\ lb.pc = "idle" /\ lb' # lb) =>
           \E p \in Partitions :
             /\ lb.pos[p] < Len(log[p])
             /\ conns' = conns
             /\ IF p = 1 /\ ~IsNull(log[p][lb.pos[p] + 1])
                  THEN /\ lb'.pc = "broadcast" /\ lb'.part = 1
                       /\ lb'.off = lb.pos[1] /\ lb'.pos = lb.pos
                       /\ lb'.snap \in getLeaderboard(now)
                  ELSE /\ lb'.pc = "idle" /\ lb'.snap = lb.snap
                       /\ lb'.pos = [lb.pos EXCEPT ![p] = @ + 1] ]_vars
  /\ [][ (lb.pc = "broadcast" /\ lb' # lb) =>
           /\ lb'.pc = "idle" /\ lb'.pos = [lb.pos EXCEPT ![1] = lb.off + 1]
           /\ conns'["c1"].out = Append(conns["c1"].out, LeaderboardUpdate(lb.snap)) ]_vars
  /\ [][ conns' # conns => lb.pc = "broadcast" ]_vars
  /\ [](UpdatesOf("c1") =
          Cardinality({i \in 1..lb.pos[1] : ~IsNull(log[1][i])}))

\* the ingestion consumer refused the only vote and the ledger holds no vote;
\* the leaderboard consumer has passed the creation event and the vote's
\* record, and the observer was handed one update, for the refused vote
C37_Witness ==
  /\ Len(log[1]) = 1 /\ ~IsNull(log[1][1]) /\ log[1][1].option_id = 3
  /\ pos["w1"][1] = 1 /\ pos["w1"][0] = 1 /\ cur["w1"].op = "idle"
  /\ polls # {} /\ votes = {}
  /\ lb.pc = "idle" /\ lb.pos[0] = 1 /\ lb.pos[1] = 1
  /\ UpdatesOf("c1") = 1

=============================================================================
